---------------------------- MODULE Spec2Model ----------------------------
(***************************************************************************)
(* A model of the zenith-bundler page pipeline (src/src/main.rs):          *)
(* payload validation, binding derivation from the data-zx-* attributes of *)
(* the HTML, asset emission, entry-module generation and the writes that   *)
(* run() performs under the output directory.                              *)
(*                                                                         *)
(* Strings that the code takes apart are sequences of one-character        *)
(* strings; an Option<T> is the empty sequence (None) or <<v>> (Some(v)).  *)
(***************************************************************************)
EXTENDS Integers, Sequences, FiniteSets, TLC

VARIABLES
    payload,        \* BundlerInput read from stdin: route, file, router, ir
    dpc,            \* position inside derive_binding_tables
    cursor,         \* 1-based position of captures_iter in the HTML's attributes
    part,           \* 1-based position of split_whitespace in a data-zx-e value
    marker_slots,   \* Vec<Option<MarkerBinding>>, slot i+1 is expression index i
    event_bindings, \* the event table derive_binding_tables accumulates
    derived,        \* what derive_binding_tables returned
    pc,             \* position inside run()
    fs,             \* the output directory: [dirs, files], paths relative to it
    fs0,            \* the output directory as it was when run() started
    result,         \* what run() returned
    markers,        \* run()'s marker table
    events,         \* run()'s event table
    component_assets, \* hoist id -> asset path, built by emit_component_assets
    js,             \* the page entry module, a sequence of sections
    page_html,      \* the HTML document run() writes
    hashing,        \* stable_hash_8 at work: its input, position and accumulator
    builds,         \* concurrent invocations of the bundler, one record each
    upserts,        \* the entries upsert_router_manifest has persisted, in order
    injected,       \* the script sources inject_script_once was called with, in order
    css,            \* the CSS pruning: the parsed rules, the used classes, the result
    buffer,         \* CssBuffer: file id -> CSS, and the texts stitch_and_prune returned
    checking,       \* validate_expressions: the two expression lists and what it returned
    resolving,      \* an import specifier of user code, its validation and its resolution
    transforming,   \* a module under the loader's transform hook: mode, id, code, passes
    cache,          \* CssCache and the threads calling it
    dev             \* ZenithDevController: the builder thread, the channels, the callers

deriveVars == <<dpc, cursor, part, marker_slots, event_bindings, derived>>

runVars == <<pc, fs, fs0, result, markers, events, component_assets, js, page_html>>

\* What the page pipeline of one run() does not touch.
laterVars == <<buffer, checking, resolving, transforming, cache, dev>>

otherVars == <<hashing, builds, upserts, injected, css, laterVars>>

vars == <<payload, dpc, cursor, part, marker_slots, event_bindings, derived,
          pc, fs, fs0, result, markers, events, component_assets, js, page_html,
          otherVars>>

---------------------------------------------------------------------------
(* Bounds of the model. *)

MaxAttrs == 2
MaxExprs == 2
MaxBytes == 4
MaxUpserts == 3
MaxPieces == 2
MaxInjections == 3
MaxNesting == 2
MaxLoads == 2
MaxListLen == 2
MaxTokens == 2
MaxPasses == 3
MaxCalls == 3
MaxRebuilds == 3

---------------------------------------------------------------------------
(* Option<T> *)

None == <<>>
Some(v) == <<v>>
IsSome(o) == o # <<>>
Unwrap(o) == o[1]

---------------------------------------------------------------------------
(* str::parse::<usize> and str::split_whitespace, on character sequences. *)

Digits == {"0", "1", "2", "3", "4", "5", "6", "7", "8", "9"}

DigitValue(c) ==
    CASE c = "0" -> 0 [] c = "1" -> 1 [] c = "2" -> 2 [] c = "3" -> 3
      [] c = "4" -> 4 [] c = "5" -> 5 [] c = "6" -> 6 [] c = "7" -> 7
      [] c = "8" -> 8 [] c = "9" -> 9

RECURSIVE DecimalValue(_)
DecimalValue(ds) ==
    IF ds = <<>> THEN 0
    ELSE 10 * DecimalValue(SubSeq(ds, 1, Len(ds) - 1)) + DigitValue(ds[Len(ds)])

\* raw.parse::<usize>(): an optional '+', then one or more decimal digits.
ParseUsize(raw) ==
    LET digits == IF Len(raw) > 1 /\ raw[1] = "+" THEN Tail(raw) ELSE raw
    IN  IF digits # <<>> /\ \A i \in 1..Len(digits) : digits[i] \in Digits
        THEN Some(DecimalValue(digits))
        ELSE None

IsWhitespace(c) == c = " "

RECURSIVE SplitFrom(_, _, _)
SplitFrom(raw, word, acc) ==
    IF raw = <<>>
    THEN IF word = <<>> THEN acc ELSE Append(acc, word)
    ELSE IF IsWhitespace(Head(raw))
         THEN SplitFrom(Tail(raw), <<>>, IF word = <<>> THEN acc ELSE Append(acc, word))
         ELSE SplitFrom(Tail(raw), Append(word, Head(raw)), acc)

SplitWhitespace(raw) == SplitFrom(raw, <<>>, <<>>)

---------------------------------------------------------------------------
(* The attributes the binding regex captures: a tag (the part after         *)
(* "data-zx-", "on-" kept as one unit) and the raw value between quotes.   *)

TagText      == <<"e">>
TagComponent == <<"c">>
TagOnClick   == <<"on-", "click">>
TagTitle     == <<"title">>

AttrTags == {TagText, TagComponent, TagOnClick, TagTitle}

RawValues ==
    { <<"0">>, <<"1">>, <<"2">>, <<"x">>, <<"+", "1">>,
      <<"0", " ", "1">>, <<"1", " ", "1">> }

Attrs == [tag : AttrTags, value : RawValues]

SeqsUpTo(S, n) == UNION { [1..k -> S] : k \in 0..n }

Htmls == SeqsUpTo(Attrs, MaxAttrs)

ExpressionText == "expr"
Expressions(n) == [i \in 1..n |-> ExpressionText]

\* attr_name.strip_prefix("on-")
StripPrefixOn(tag) ==
    IF Len(tag) >= 1 /\ tag[1] = "on-" THEN Some(Tail(tag)) ELSE None

---------------------------------------------------------------------------
(* parse_expression_index, insert_marker *)

Ok(v)        == [ok |-> TRUE, value |-> v, err |-> "", index |-> -1]
Err(msg, ix) == [ok |-> FALSE, value |-> <<>>, err |-> msg, index |-> ix]

parse_expression_index(raw, expression_count) ==
    LET parsed == ParseUsize(raw)
    IN  IF ~IsSome(parsed) THEN Err("invalid expression index", -1)
        ELSE IF Unwrap(parsed) >= expression_count
             THEN Err("out-of-bounds expression index", Unwrap(parsed))
             ELSE Ok(Unwrap(parsed))

\* insert_marker without the occupied-slot check.
insert_marker_overwriting(slots, marker) ==
    LET index == marker.index
    IN  IF index >= Len(slots) THEN Err("marker index out of bounds", index)
        ELSE Ok([slots EXCEPT ![index + 1] = Some(marker)])

insert_marker(slots, marker) ==
    LET index == marker.index
    IN  IF index >= Len(slots) THEN Err("marker index out of bounds", index)
        ELSE IF IsSome(slots[index + 1])
             THEN Err("duplicate marker index", index)
             ELSE Ok([slots EXCEPT ![index + 1] = Some(marker)])

Selector(tag, op, index) == [attr |-> tag, op |-> op, value |-> index]

TextMarker(index) ==
    [index |-> index, kind |-> "text",
     selector |-> Selector(TagText, "~=", index), attr |-> None]

EventMarker(tag, index) ==
    [index |-> index, kind |-> "event",
     selector |-> Selector(tag, "=", index), attr |-> None]

AttrMarker(tag, index) ==
    [index |-> index, kind |-> "attr",
     selector |-> Selector(tag, "=", index), attr |-> Some(tag)]

\* The event entry named after the whole attribute instead of the stripped name.
EventEntry_KeepsPrefix(tag, index) ==
    [index |-> index, event |-> tag, selector |-> Selector(tag, "=", index)]

EventEntry(tag, index) ==
    [index |-> index, event |-> Unwrap(StripPrefixOn(tag)),
     selector |-> Selector(tag, "=", index)]

---------------------------------------------------------------------------
(* derive_binding_tables, one loop iteration per step. *)

DeriveOk(table, event_table) ==
    [tag |-> "Ok", markers |-> table, events |-> event_table, err |-> "", index |-> -1]

DeriveErr(e) ==
    [tag |-> "Err", markers |-> <<>>, events |-> <<>>, err |-> e.err, index |-> e.index]

NotReturned ==
    [tag |-> "None", markers |-> <<>>, events |-> <<>>, err |-> "", index |-> -1]

ExpressionCount == Len(payload.ir.expressions)
Html == payload.ir.html.attrs
CurrentAttr == Html[cursor]

\* The early return for an empty expression list.
SkipsEmpty(expression_count) == expression_count = 0

DeriveBegin ==
    /\ dpc = "begin"
    /\ IF SkipsEmpty(ExpressionCount)
       THEN /\ derived' = DeriveOk(<<>>, <<>>)
            /\ dpc' = "returned"
            /\ UNCHANGED <<marker_slots, event_bindings>>
       ELSE /\ marker_slots' = [i \in 1..ExpressionCount |-> None]
            /\ event_bindings' = <<>>
            /\ dpc' = "scan"
            /\ UNCHANGED derived
    /\ cursor' = 1
    /\ part' = 1
    /\ UNCHANGED <<otherVars, payload, runVars>>

Fail(e) ==
    /\ derived' = DeriveErr(e)
    /\ dpc' = "returned"

\* attr_name == "e": one part of the whitespace-separated value per step.
ScanText ==
    /\ dpc = "scan"
    /\ cursor <= Len(Html)
    /\ CurrentAttr.tag = TagText
    /\ LET parts == SplitWhitespace(CurrentAttr.value)
       IN  IF part > Len(parts)
           THEN /\ cursor' = cursor + 1
                /\ part' = 1
                /\ UNCHANGED <<dpc, marker_slots, event_bindings, derived>>
           ELSE LET parsed == parse_expression_index(parts[part], ExpressionCount)
                    placed == insert_marker(marker_slots, TextMarker(parsed.value))
                IN  IF ~parsed.ok
                    THEN /\ Fail(parsed)
                         /\ UNCHANGED <<cursor, part, marker_slots, event_bindings>>
                    ELSE IF ~placed.ok
                    THEN /\ Fail(placed)
                         /\ UNCHANGED <<cursor, part, marker_slots, event_bindings>>
                    ELSE /\ marker_slots' = placed.value
                         /\ part' = part + 1
                         /\ UNCHANGED <<dpc, cursor, event_bindings, derived>>
    /\ UNCHANGED <<otherVars, payload, runVars>>

\* attr_name == "c": skipped.
ScanComponent ==
    /\ dpc = "scan"
    /\ cursor <= Len(Html)
    /\ CurrentAttr.tag = TagComponent
    /\ cursor' = cursor + 1
    /\ UNCHANGED <<otherVars, payload, runVars, dpc, part, marker_slots, event_bindings, derived>>

\* attr_name starts with "on-".
ScanEvent ==
    /\ dpc = "scan"
    /\ cursor <= Len(Html)
    /\ CurrentAttr.tag \notin {TagText, TagComponent}
    /\ IsSome(StripPrefixOn(CurrentAttr.tag))
    /\ LET parsed == parse_expression_index(CurrentAttr.value, ExpressionCount)
           placed == insert_marker(marker_slots, EventMarker(CurrentAttr.tag, parsed.value))
       IN  IF ~parsed.ok
           THEN /\ Fail(parsed)
                /\ UNCHANGED <<cursor, marker_slots, event_bindings>>
           ELSE IF ~placed.ok
           THEN /\ Fail(placed)
                /\ UNCHANGED <<cursor, marker_slots, event_bindings>>
           ELSE /\ marker_slots' = placed.value
                /\ event_bindings' =
                       Append(event_bindings, EventEntry(CurrentAttr.tag, parsed.value))
                /\ cursor' = cursor + 1
                /\ UNCHANGED <<dpc, derived>>
    /\ UNCHANGED <<otherVars, payload, runVars, part>>

\* Any other tag: a generic attribute marker.
ScanAttr ==
    /\ dpc = "scan"
    /\ cursor <= Len(Html)
    /\ CurrentAttr.tag \notin {TagText, TagComponent}
    /\ ~IsSome(StripPrefixOn(CurrentAttr.tag))
    /\ LET parsed == parse_expression_index(CurrentAttr.value, ExpressionCount)
           placed == insert_marker(marker_slots, AttrMarker(CurrentAttr.tag, parsed.value))
       IN  IF ~parsed.ok
           THEN /\ Fail(parsed)
                /\ UNCHANGED <<cursor, marker_slots>>
           ELSE IF ~placed.ok
           THEN /\ Fail(placed)
                /\ UNCHANGED <<cursor, marker_slots>>
           ELSE /\ marker_slots' = placed.value
                /\ cursor' = cursor + 1
                /\ UNCHANGED <<dpc, derived>>
    /\ UNCHANGED <<otherVars, payload, runVars, part, event_bindings>>

\* The highest empty slot instead of the lowest.
FirstEmptySlot_Last(slots) ==
    IF \E i \in 1..Len(slots) : ~IsSome(slots[i])
    THEN Some((CHOOSE i \in 1..Len(slots) :
                  /\ ~IsSome(slots[i])
                  /\ \A j \in (i + 1)..Len(slots) : IsSome(slots[j])) - 1)
    ELSE None

\* The lowest slot that is still None, as the collecting loop meets it.
FirstEmptySlot(slots) ==
    IF \E i \in 1..Len(slots) : ~IsSome(slots[i])
    THEN Some((CHOOSE i \in 1..Len(slots) :
                  /\ ~IsSome(slots[i])
                  /\ \A j \in 1..(i - 1) : IsSome(slots[j])) - 1)
    ELSE None

\* The collecting loop skipping an empty slot instead of failing.
CollectMarkers_SkipEmpty(slots) ==
    DeriveOk(SelectSeq([i \in 1..Len(slots) |-> slots[i]], IsSome), event_bindings)

CollectMarkers(slots) ==
    LET missing == FirstEmptySlot(slots)
    IN  IF IsSome(missing)
        THEN DeriveErr(Err("missing marker for expression index", Unwrap(missing)))
        ELSE DeriveOk([i \in 1..Len(slots) |-> Unwrap(slots[i])], event_bindings)

DeriveCollect ==
    /\ dpc = "scan"
    /\ cursor > Len(Html)
    /\ derived' = CollectMarkers(marker_slots)
    /\ dpc' = "returned"
    /\ UNCHANGED <<otherVars, payload, runVars, cursor, part, marker_slots, event_bindings>>

---------------------------------------------------------------------------
(* Strings: trim().is_empty(), starts_with, the byte order of BTreeMap keys *)
(* and of sort_by on paths.                                                *)

IsBlank(s) == \A i \in 1..Len(s) : IsWhitespace(s[i])

StartsWith(s, c) == Len(s) >= 1 /\ s[1] = c

RECURSIVE TrimStart(_)
TrimStart(s) ==
    IF s # <<>> /\ IsWhitespace(Head(s)) THEN TrimStart(Tail(s)) ELSE s

RECURSIVE TrimEnd(_)
TrimEnd(s) ==
    IF s # <<>> /\ IsWhitespace(s[Len(s)])
    THEN TrimEnd(SubSeq(s, 1, Len(s) - 1)) ELSE s

Trim(s) == TrimEnd(TrimStart(s))

CharRank(c) ==
    CASE c = "\n" -> 10
      [] c = " " -> 32 [] c = "-" -> 45 [] c = "." -> 46 [] c = "/" -> 47
      [] c = "0" -> 48 [] c = "1" -> 49 [] c = "2" -> 50 [] c = "3" -> 51
      [] c = "4" -> 52 [] c = "5" -> 53 [] c = "6" -> 54 [] c = "7" -> 55
      [] c = "8" -> 56 [] c = "9" -> 57 [] c = ":" -> 58
      [] c = "A" -> 65 [] c = "B" -> 66
      [] c = "_" -> 95 [] c = "a" -> 97 [] c = "b" -> 98 [] c = "c" -> 99
      [] c = "d" -> 100 [] c = "e" -> 101 [] c = "f" -> 102 [] c = "i" -> 105
      [] c = "s" -> 115
      [] OTHER -> 120

\* content.bytes(); a piece of fixed text that is kept whole counts as one byte.
Bytes(text) == [i \in 1..Len(text) |-> CharRank(text[i])]

RECURSIVE LexLess(_, _)
LexLess(s, t) ==
    IF t = <<>> THEN FALSE
    ELSE IF s = <<>> THEN TRUE
    ELSE IF CharRank(Head(s)) # CharRank(Head(t))
         THEN CharRank(Head(s)) < CharRank(Head(t))
         ELSE LexLess(Tail(s), Tail(t))

\* The keys from the greatest to the least.
RECURSIVE SortedKeys_Descending(_)
SortedKeys_Descending(keys) ==
    IF keys = {} THEN <<>>
    ELSE LET greatest == CHOOSE k \in keys : \A other \in keys \ {k} : LexLess(other, k)
         IN  <<greatest>> \o SortedKeys_Descending(keys \ {greatest})

\* The keys of a BTreeMap in iteration order.
RECURSIVE SortedKeys(_)
SortedKeys(keys) ==
    IF keys = {} THEN <<>>
    ELSE LET least == CHOOSE k \in keys : \A other \in keys \ {k} : LexLess(k, other)
         IN  <<least>> \o SortedKeys(keys \ {least})

\* The first Err of a sequence of check results, else Ok.
RECURSIVE FirstErr(_)
FirstErr(checks) ==
    IF checks = <<>> THEN Ok(<<>>)
    ELSE IF ~Head(checks).ok THEN Head(checks)
    ELSE FirstErr(Tail(checks))

Check(bad, msg, ix) == IF bad THEN Err(msg, ix) ELSE Ok(<<>>)

---------------------------------------------------------------------------
(* CompilerIr and BundlerInput *)

HtmlOf(kind, attrs) == [kind |-> kind, attrs |-> attrs]

IrMarker(i) == TextMarker(i)

IrEvent(i) ==
    [index |-> i, event |-> <<"click">>, selector |-> Selector(TagOnClick, "=", i)]

IrExpressionBinding(marker_index, signal_index, state_index) ==
    [marker_index |-> marker_index, signal_index |-> signal_index,
     state_index |-> state_index, component_instance |-> None,
     component_binding |-> None, literal |-> None]

IrSignal(id, state_index) == [id |-> id, kind |-> "signal", state_index |-> state_index]

IrState == [key |-> "count", value |-> "signal(0)"]

HoistA == <<"a">>
HoistB == <<"b">>

ComponentScript(hoist_id) ==
    [hoist_id |-> hoist_id, factory |-> <<"f">>, imports |-> <<>>, code |-> <<"c">>]

ComponentInstance(hoist_id) ==
    [instance |-> <<"i">>, hoist_id |-> hoist_id, selector |-> <<"s">>]

NoComponents == [h \in {} |-> ComponentScript(h)]

BaseIr ==
    [ir_version |-> 1,
     html |-> HtmlOf("fragment", <<>>),
     expressions |-> <<>>,
     hoisted |-> [state |-> <<>>, code |-> <<>>],
     components_scripts |-> NoComponents,
     component_instances |-> <<>>,
     signals |-> <<>>,
     expression_bindings |-> <<>>,
     marker_bindings |-> <<>>,
     event_bindings |-> <<>>]

BasePayload ==
    [route |-> <<"/">>, file |-> <<"a">>, router |-> FALSE, ir |-> BaseIr]

---------------------------------------------------------------------------
(* validate_payload *)

SignalChecks(ir) ==
    [i \in 1..Len(ir.signals) |->
        FirstErr(<<
            Check(ir.signals[i].kind # "signal", "signals[].kind must be 'signal'", -1),
            Check(ir.signals[i].state_index >= Len(ir.hoisted.state),
                  "signals[].state_index out of bounds", ir.signals[i].state_index) >>)]

ExpressionBindingChecks(ir) ==
    [i \in 1..Len(ir.expression_bindings) |->
        LET binding == ir.expression_bindings[i]
        IN  FirstErr(<<
                Check(binding.marker_index >= Len(ir.expressions),
                      "expression_bindings[].marker_index out of bounds",
                      binding.marker_index),
                Check(IsSome(binding.state_index)
                        /\ Unwrap(binding.state_index) >= Len(ir.hoisted.state),
                      "expression_bindings[].state_index out of bounds", i - 1),
                Check(IsSome(binding.signal_index)
                        /\ Unwrap(binding.signal_index) >= Len(ir.signals),
                      "expression_bindings[].signal_index out of bounds", i - 1) >>)]

ComponentScriptChecks(ir) ==
    LET keys == SortedKeys(DOMAIN ir.components_scripts)
    IN  [i \in 1..Len(keys) |->
            LET script == ir.components_scripts[keys[i]]
            IN  FirstErr(<<
                    Check(IsBlank(keys[i]), "components_scripts contains an empty hoist_id key", -1),
                    Check(IsBlank(script.code), "components_scripts[].code must be non-empty", -1),
                    Check(IsBlank(script.factory), "components_scripts[].factory must be non-empty", -1),
                    Check(script.hoist_id # keys[i], "components_scripts key mismatches hoist_id", -1) >>)]

ComponentInstanceChecks(ir) ==
    [i \in 1..Len(ir.component_instances) |->
        LET instance == ir.component_instances[i]
        IN  FirstErr(<<
                Check(IsBlank(instance.instance), "component_instances[].instance must be non-empty", -1),
                Check(IsBlank(instance.selector), "component_instances[].selector must be non-empty", -1),
                Check(instance.hoist_id \notin DOMAIN ir.components_scripts,
                      "component_instances references unknown hoist_id", -1) >>)]

\* The seen-map loop over marker_bindings: bounds, then a repeated index.
MarkerBindingChecks(ir) ==
    [i \in 1..Len(ir.marker_bindings) |->
        LET marker == ir.marker_bindings[i]
        IN  FirstErr(<<
                Check(marker.index >= Len(ir.expressions),
                      "marker_bindings index out of bounds", marker.index),
                Check(\E j \in 1..(i - 1) : ir.marker_bindings[j].index = marker.index,
                      "marker_bindings contains duplicate index", marker.index) >>)]

validate_payload(p) ==
    LET ir == p.ir
    IN  FirstErr(
          << Check(ir.ir_version # 1, "unsupported input.ir.ir_version", ir.ir_version),
             Check(IsBlank(p.route), "input.route must be a non-empty string", -1),
             Check(~StartsWith(p.route, "/"), "input.route must start with '/'", -1),
             Check(IsBlank(p.file), "input.file must be a non-empty string", -1),
             Check(ir.html.kind = "blank", "input.ir.html must be a non-empty string", -1),
             Check(ir.expression_bindings # <<>>
                     /\ Len(ir.expression_bindings) # Len(ir.expressions),
                   "expression_bindings length must match expressions length",
                   Len(ir.expression_bindings)),
             Check(ir.marker_bindings # <<>>
                     /\ Len(ir.marker_bindings) # Len(ir.expressions),
                   "marker_bindings length must match expressions length",
                   Len(ir.marker_bindings)) >>
          \o SignalChecks(ir)
          \o ExpressionBindingChecks(ir)
          \o ComponentScriptChecks(ir)
          \o ComponentInstanceChecks(ir)
          \o MarkerBindingChecks(ir))

---------------------------------------------------------------------------
(* stable_hash_8.  An i32 is kept as its bit pattern, a pair <<high, low>>   *)
(* of 16-bit halves, so that no intermediate value leaves 32 bits; a string *)
(* to be hashed is the sequence of its bytes.                               *)

Half == 65536

Word(high, low) == <<high, low>>

\* byte as i32
ByteAsI32(byte) == Word(0, byte)

\* i32::wrapping_shl(5)
wrapping_shl5(x) ==
    LET low == x[2] * 32
    IN  Word((x[1] * 32 + low \div Half) % Half, low % Half)

\* i32::wrapping_sub
wrapping_sub(x, y) ==
    LET borrow == IF x[2] < y[2] THEN 1 ELSE 0
    IN  Word((x[1] - y[1] - borrow + 2 * Half) % Half, (x[2] - y[2] + Half) % Half)

\* i32::wrapping_add
wrapping_add(x, y) ==
    LET low == x[2] + y[2]
    IN  Word((x[1] + y[1] + low \div Half) % Half, low % Half)

IsNegative(x) == x[1] >= Half \div 2

\* hash.wrapping_abs() as u32, without the absolute value
wrapping_abs_skipped(x) == x

\* hash.wrapping_abs() as u32
wrapping_abs(x) == IF IsNegative(x) THEN wrapping_sub(Word(0, 0), x) ELSE x

\* One turn of the loop over content.bytes().
HashStep(hash, byte) ==
    wrapping_add(wrapping_sub(wrapping_shl5(hash), hash), ByteAsI32(byte))

HexDigit(n) ==
    CASE n = 10 -> "a" [] n = 11 -> "b" [] n = 12 -> "c" [] n = 13 -> "d"
      [] n = 14 -> "e" [] n = 15 -> "f"
      [] n = 0 -> "0" [] n = 1 -> "1" [] n = 2 -> "2" [] n = 3 -> "3"
      [] n = 4 -> "4" [] n = 5 -> "5" [] n = 6 -> "6" [] n = 7 -> "7"
      [] n = 8 -> "8" [] n = 9 -> "9"

\* The hexadecimal digits of a number below 65536, without leading zeros.
RECURSIVE LowerHex(_)
LowerHex(n) ==
    IF n < 16 THEN <<HexDigit(n)>>
    ELSE Append(LowerHex(n \div 16), HexDigit(n % 16))

RECURSIVE ZeroPad(_, _)
ZeroPad(digits, width) ==
    IF Len(digits) >= width THEN digits ELSE ZeroPad(<<"0">> \o digits, width)

\* format!("{normalized:08x}")
Format08x(x) ==
    ZeroPad(IF x[1] = 0 THEN LowerHex(x[2])
            ELSE LowerHex(x[1]) \o ZeroPad(LowerHex(x[2]), 4),
            8)

\* for byte in content.bytes(): the accumulator is a value at every turn.
RECURSIVE FoldBytes(_, _)
FoldBytes(hash, content) ==
    IF content = <<>> THEN hash
    ELSE CHOOSE last \in { FoldBytes(next, Tail(content)) :
                             next \in {HashStep(hash, Head(content))} } : TRUE

stable_hash_8(content) == Format08x(wrapping_abs(FoldBytes(Word(0, 0), content)))

---------------------------------------------------------------------------
(* The output directory.  A path is a sequence of components relative to   *)
(* out_dir, each component a sequence of strings; <<>> is out_dir itself.  *)
(* The runtime module and the router module are fixed texts: the hash in   *)
(* their names is one fixed value, kept symbolic.                          *)

AssetsDir == << <<"assets">> >>
Hash8 == "<hash>"

RuntimeRel  == AssetsDir \o << <<"runtime.", Hash8, ".js">> >>
RouterRel   == AssetsDir \o << <<"router.", Hash8, ".js">> >>
ManifestRel == AssetsDir \o << <<"router-manifest.json">> >>

Parent(path) == SubSeq(path, 1, Len(path) - 1)
Ancestors(dir) == { SubSeq(dir, 1, k) : k \in 0..Len(dir) }

Exists(disk, path) == path \in disk.dirs \/ path \in DOMAIN disk.files

\* fs::create_dir_all
CreateDirAll(disk, dir) == [disk EXCEPT !.dirs = @ \cup Ancestors(dir)]

\* fs::write
Write(disk, path, content) ==
    [disk EXCEPT !.files =
        [q \in DOMAIN @ \cup {path} |-> IF q = path THEN content ELSE @[q]]]

IoOutcomes == {"ok", "mkdir_failed", "write_failed"}

\* create_dir_all(parent) followed by write(path): what is on disk afterwards.
CreateAndWrite(disk, path, content, io) ==
    IF io = "mkdir_failed" THEN disk
    ELSE IF io = "write_failed" THEN CreateDirAll(disk, Parent(path))
    ELSE Write(CreateDirAll(disk, Parent(path)), path, content)

EmptyDisk == [dirs |-> {}, files |-> [q \in {} |-> <<>>]]

---------------------------------------------------------------------------
(* route_to_output_path, sanitize_asset_token *)

RECURSIVE SplitOn(_, _, _, _)
SplitOn(s, sep, word, acc) ==
    IF s = <<>> THEN Append(acc, word)
    ELSE IF Head(s) = sep THEN SplitOn(Tail(s), sep, <<>>, Append(acc, word))
    ELSE SplitOn(Tail(s), sep, Append(word, Head(s)), acc)

IsStaticSegment(segment) == segment # <<>> /\ ~StartsWith(segment, ":")

route_to_output_path(route_path) ==
    IF route_path = <<"/">> THEN << <<"index.html">> >>
    ELSE SelectSeq(SplitOn(route_path, "/", <<>>, <<>>), IsStaticSegment)
           \o << <<"index.html">> >>

AsciiAlphanumeric == Digits \cup {"a", "b", "i"}

SanitizeChar(ch) == IF ch \in AsciiAlphanumeric \cup {"_", "-"} THEN ch ELSE "_"

sanitize_asset_token(input) == [i \in 1..Len(input) |-> SanitizeChar(input[i])]

ComponentRel(hoist_id, module_source) ==
    AssetsDir \o << <<"component.">> \o sanitize_asset_token(hoist_id)
                      \o <<".">> \o stable_hash_8(Bytes(module_source))
                      \o <<".js">> >>

---------------------------------------------------------------------------
(* ensure_document_html, inject_script_once *)

(* An HTML text is a sequence of pieces: the page content the IR brought,  *)
(* "</body>", the other tags of the wrapper, and script tags.  A piece of  *)
(* content may spell out the path of an asset.                             *)

NoBody == [kind |-> "none", attrs |-> <<>>]

Piece(kind, src, attr, body) == [kind |-> kind, src |-> src, attr |-> attr, body |-> body]

WrapperOpen == Piece("<!DOCTYPE html><html><head></head><body>", <<>>, "", NoBody)
BodyClose   == Piece("</body>", <<>>, "", NoBody)
HtmlClose   == Piece("</html>", <<>>, "", NoBody)

\* The IR's HTML; src is an asset path that its text spells out, if any.
Content(html, src) == Piece("content", src, "", html)

\* <script type="module" src="{script_src}" {marker_attr}></script>
ScriptTag(script_src, marker_attr) == Piece("script", script_src, marker_attr, NoBody)

ensure_document_html(html) ==
    IF html.kind = "document" THEN <<Content(html, <<>>)>>
    ELSE <<WrapperOpen, Content(html, <<>>), BodyClose, HtmlClose>>

NoDocument == <<>>

\* html.contains(script_src)
ContainsSrc(doc, script_src) ==
    \E i \in 1..Len(doc) : doc[i].src = script_src

\* html.contains("</body>")
ContainsBodyClose(doc) == \E i \in 1..Len(doc) : doc[i] = BodyClose

\* html.replacen("</body>", "{script_tag}</body>", 1)
BeforeFirstBodyClose(doc, script_tag) ==
    LET first == CHOOSE i \in 1..Len(doc) :
                    /\ doc[i] = BodyClose
                    /\ \A j \in 1..(i - 1) : doc[j] # BodyClose
    IN  SubSeq(doc, 1, first - 1) \o <<script_tag>> \o SubSeq(doc, first, Len(doc))

inject_script_once(doc, script_src, marker_attr) ==
    IF ContainsSrc(doc, script_src) THEN doc
    ELSE IF ContainsBodyClose(doc)
         THEN BeforeFirstBodyClose(doc, ScriptTag(script_src, marker_attr))
         ELSE Append(doc, ScriptTag(script_src, marker_attr))

---------------------------------------------------------------------------
(* emit_component_assets: the module text of one component *)

RECURSIVE ImportLines(_)
ImportLines(imports) ==
    IF imports = <<>> THEN <<>>
    ELSE Trim(Head(imports)) \o <<"\n">> \o ImportLines(Tail(imports))

ComponentModule(component, runtime_import_spec) ==
    ImportLines(component.imports)
      \o <<"import { signal, state, zeneffect } from '">> \o runtime_import_spec
      \o <<"';", "\n">>
      \o <<"const __zenith_runtime = Object.freeze({ signal, state, zeneffect });",
            "\n">>
      \o component.code \o <<"\n">>

RuntimeImportSpec == <<"./", "runtime.", Hash8, ".js">>

---------------------------------------------------------------------------
(* generate_entry_js *)

Section(name, content) == [section |-> name, content |-> content]

RECURSIVE HoistedCode(_)
HoistedCode(blocks) ==
    IF blocks = <<>> THEN <<>>
    ELSE (IF Trim(Head(blocks)) # <<>>
          THEN <<Section("hoisted_code", Trim(Head(blocks)))>> ELSE <<>>)
         \o HoistedCode(Tail(blocks))

fallback_expression_bindings(ir) ==
    [i \in 1..Len(ir.expressions) |->
        [marker_index |-> i - 1, signal_index |-> None, state_index |-> None,
         component_instance |-> None, component_binding |-> None,
         literal |-> Some(ir.expressions[i])]]

generate_state_table_js(bindings) ==
    [i \in 1..Len(bindings) |-> bindings[i].value]

ComponentAlias(hoist_id) == <<"__zenith_component_">> \o sanitize_asset_token(hoist_id)

generate_component_bootstrap_js(ir, assets) ==
    IF ir.component_instances = <<>> THEN Ok([imports |-> <<>>, components |-> <<>>])
    ELSE LET keys == SortedKeys(DOMAIN assets)
             imports == [i \in 1..Len(keys) |->
                            [alias |-> ComponentAlias(keys[i]),
                             file |-> assets[keys[i]][Len(assets[keys[i]])]]]
             unmapped == { i \in 1..Len(ir.component_instances) :
                             ir.component_instances[i].hoist_id \notin DOMAIN assets }
         IN  IF unmapped # {}
             THEN Err("missing component asset mapping for hoist_id", -1)
             ELSE Ok([imports |-> imports,
                      components |->
                        [i \in 1..Len(ir.component_instances) |->
                            [instance |-> ir.component_instances[i].instance,
                             selector |-> ir.component_instances[i].selector,
                             hoist_id |-> ir.component_instances[i].hoist_id,
                             create |-> ComponentAlias(ir.component_instances[i].hoist_id)]]])

HydrateCall ==
    [root |-> "document", ir_version |-> "ir_version",
     expressions |-> "expression_bindings", markers |-> "markers",
     events |-> "events", state_values |-> "state_values",
     signals |-> "signals", components |-> "components"]

\* The sections in the order of the design document: the state table after the
\* expression table, the component table before the runtime import.
generate_entry_js_documented(ir, runtime_import_spec, marker_table, event_table, assets) ==
    LET bootstrap == generate_component_bootstrap_js(ir, assets)
        expression_table ==
            IF ir.expression_bindings = <<>> THEN fallback_expression_bindings(ir)
            ELSE ir.expression_bindings
    IN  IF ~bootstrap.ok THEN bootstrap
        ELSE Ok(<<Section("virtual_entry", <<ir.html, ir.expressions>>)>>
                \o HoistedCode(ir.hoisted.code)
                \o <<Section("markers", marker_table),
                     Section("events", event_table),
                     Section("ir_version", <<ir.ir_version>>),
                     Section("signals", ir.signals),
                     Section("expression_bindings", expression_table),
                     Section("state_values", generate_state_table_js(ir.hoisted.state))>>
                \o (IF bootstrap.value.imports # <<>>
                    THEN <<Section("component_imports", bootstrap.value.imports)>>
                    ELSE <<>>)
                \o <<Section("components", bootstrap.value.components),
                     Section("runtime_import", runtime_import_spec),
                     Section("hydrate", <<HydrateCall>>)>>)

generate_entry_js(ir, runtime_import_spec, marker_table, event_table, assets) ==
    LET bootstrap == generate_component_bootstrap_js(ir, assets)
        expression_table ==
            IF ir.expression_bindings = <<>> THEN fallback_expression_bindings(ir)
            ELSE ir.expression_bindings
    IN  IF ~bootstrap.ok THEN bootstrap
        ELSE Ok(<<Section("virtual_entry", <<ir.html, ir.expressions>>)>>
                \o HoistedCode(ir.hoisted.code)
                \o <<Section("markers", marker_table),
                     Section("events", event_table),
                     Section("state_values", generate_state_table_js(ir.hoisted.state)),
                     Section("ir_version", <<ir.ir_version>>),
                     Section("signals", ir.signals),
                     Section("expression_bindings", expression_table)>>
                \o (IF bootstrap.value.imports # <<>>
                    THEN <<Section("component_imports", bootstrap.value.imports)>>
                    ELSE <<>>)
                \o <<Section("runtime_import", runtime_import_spec),
                     Section("components", bootstrap.value.components),
                     Section("hydrate", <<HydrateCall>>)>>)

\* The characters of one section of the entry module.  A table is kept as
\* the indices or names of its rows, a fixed section as its line end.
RECURSIVE RowChars(_, _)
RowChars(name, rows) ==
    IF rows = <<>> THEN <<>>
    ELSE (CASE name = "component_imports" -> Head(rows).alias \o Head(rows).file
            [] name = "components" ->
                   Head(rows).instance \o Head(rows).selector
                     \o Head(rows).hoist_id \o Head(rows).create
            [] name \in {"markers", "events"} -> <<HexDigit(Head(rows).index)>>
            [] name = "expression_bindings" -> <<HexDigit(Head(rows).marker_index)>>
            [] OTHER -> <<>>)
         \o RowChars(name, Tail(rows))

SectionChars(section) ==
    (IF section.section \in {"hoisted_code", "runtime_import"} THEN section.content
     ELSE RowChars(section.section, section.content)) \o <<"\n">>

RECURSIVE EntryText(_)
EntryText(sections) ==
    IF sections = <<>> THEN <<>>
    ELSE SectionChars(Head(sections)) \o EntryText(Tail(sections))

\* assets/<js_hash>.js
EntryRel(sections) ==
    AssetsDir \o << stable_hash_8(Bytes(EntryText(sections))) \o <<".js">> >>

---------------------------------------------------------------------------
(* upsert_router_manifest *)

RECURSIVE InsertByPath(_, _)
InsertByPath(sorted, entry) ==
    IF sorted = <<>> THEN <<entry>>
    ELSE IF LexLess(entry.path, Head(sorted).path) THEN <<entry>> \o sorted
    ELSE <<Head(sorted)>> \o InsertByPath(Tail(sorted), entry)

\* The routes left in the order they have.
SortByPath_Skipped(routes) == routes

\* routes.sort_by(path): a stable sort.
RECURSIVE SortByPath(_)
SortByPath(routes) ==
    IF routes = <<>> THEN <<>>
    ELSE InsertByPath(SortByPath(SubSeq(routes, 1, Len(routes) - 1)), routes[Len(routes)])

\* The manifest replaced by the one entry.
Upsert_Forgetting(routes, entry) == <<entry>>

Upsert(routes, entry) ==
    IF \E i \in 1..Len(routes) : routes[i].path = entry.path
    THEN LET first == CHOOSE i \in 1..Len(routes) :
                        /\ routes[i].path = entry.path
                        /\ \A j \in 1..(i - 1) : routes[j].path # entry.path
         IN  [routes EXCEPT ![first] = entry]
    ELSE Append(routes, entry)

Manifest(routes) == [valid |-> TRUE, routes |-> routes]
CorruptManifest == [valid |-> FALSE, routes |-> <<>>]

RouteEntry(p) ==
    [path |-> p.route, output |-> route_to_output_path(p.route),
     html |-> p.ir.html, expressions |-> p.ir.expressions]

\* upsert_router_manifest pushing the entry without looking for its path.
upsert_router_manifest_pushing(disk, entry, io) ==
    LET made == CreateDirAll(disk, Parent(ManifestRel))
        loaded == IF ManifestRel \in DOMAIN made.files
                  THEN made.files[ManifestRel] ELSE Manifest(<<>>)
    IN  IF io # "ok" \/ ~loaded.valid THEN [ok |-> FALSE, disk |-> disk]
        ELSE [ok |-> TRUE,
              disk |-> Write(made, ManifestRel,
                             Manifest(SortByPath(Append(loaded.routes, entry))))]

\* [ok, disk]: the outcome and what is on disk afterwards.
upsert_router_manifest(disk, entry, io) ==
    LET made == CreateDirAll(disk, Parent(ManifestRel))
        loaded == IF ManifestRel \in DOMAIN made.files
                  THEN made.files[ManifestRel] ELSE Manifest(<<>>)
    IN  IF io = "mkdir_failed" THEN [ok |-> FALSE, disk |-> disk]
        ELSE IF ~loaded.valid THEN [ok |-> FALSE, disk |-> made]
        ELSE IF io = "write_failed" THEN [ok |-> FALSE, disk |-> made]
        ELSE [ok |-> TRUE,
              disk |-> Write(made, ManifestRel,
                             Manifest(SortByPath(Upsert(loaded.routes, entry))))]

---------------------------------------------------------------------------
(* CSS pruning (src/_legacy_v1/src/css.rs).  A rule is a style rule with    *)
(* its selector list, a media or supports rule with its nested rules, or a  *)
(* rule of another kind.  A selector is its compound selectors in source    *)
(* order, the combinators between them left out; a compound selector is a   *)
(* sequence of components.                                                  *)

Class(name) == [kind |-> "class", name |-> name]
Type(name)  == [kind |-> "type", name |-> name]

StyleRule(selectors)   == [kind |-> "style", selectors |-> selectors, rules |-> <<>>]
MediaRule(nested)      == [kind |-> "media", selectors |-> <<>>, rules |-> nested]
SupportsRule(nested)   == [kind |-> "supports", selectors |-> <<>>, rules |-> nested]
OtherRule              == [kind |-> "keyframes", selectors |-> <<>>, rules |-> <<>>]

\* Selector::iter(): the components of the rightmost compound selector; the
\* iterator ends at the first combinator it meets.
SelectorIter(selector) == selector[Len(selector)]

is_selector_used(selector, used_set) ==
    LET components == SelectorIter(selector)
        has_classes == \E i \in 1..Len(components) : components[i].kind = "class"
        any_used == \E i \in 1..Len(components) :
                        /\ components[i].kind = "class"
                        /\ components[i].name \in used_set
    IN  IF ~has_classes THEN TRUE ELSE any_used

\* prune_rules that does not look inside media and supports rules.
prune_rules_top_level(rules, used_set) ==
    LET retained == [i \in 1..Len(rules) |->
                        IF rules[i].kind = "style"
                        THEN [rules[i] EXCEPT !.selectors =
                                 SelectSeq(@, LAMBDA selector :
                                                 is_selector_used(selector, used_set))]
                        ELSE rules[i]]
    IN  SelectSeq(retained, LAMBDA rule : rule.kind # "style" \/ rule.selectors # <<>>)

RECURSIVE prune_rules(_, _)
prune_rules(rules, used_set) ==
    IF rules = <<>> THEN <<>>
    ELSE LET rule == Head(rules)
             retained ==
                 CASE rule.kind = "style" ->
                        [rule EXCEPT !.selectors =
                            SelectSeq(@, LAMBDA selector :
                                            is_selector_used(selector, used_set))]
                   [] rule.kind \in {"media", "supports"} ->
                        [rule EXCEPT !.rules = prune_rules(@, used_set)]
                   [] OTHER -> rule
             keep ==
                 CASE rule.kind = "style" -> retained.selectors # <<>>
                   [] rule.kind \in {"media", "supports"} -> retained.rules # <<>>
                   [] OTHER -> TRUE
         IN  (IF keep THEN <<retained>> ELSE <<>>) \o prune_rules(Tail(rules), used_set)

---------------------------------------------------------------------------
(* CssBuffer (src/_legacy_v1/src/css.rs).  The CSS of a file is kept as the *)
(* rules it parses to; joining the files' CSS with newlines and parsing the *)
(* result gives the files' rules one after the other.                       *)

\* The map's iteration: its keys in some order.  DashMap::new() hashes with a
\* RandomState, so the order is whichever the shards and the hasher give.
IterationOrders(styles) ==
    { order \in [1..Cardinality(DOMAIN styles) -> DOMAIN styles] :
        \A i, j \in DOMAIN order : order[i] = order[j] => i = j }

RECURSIVE JoinAndParse(_, _)
JoinAndParse(styles, order) ==
    IF order = <<>> THEN <<>>
    ELSE styles[Head(order)] \o JoinAndParse(styles, Tail(order))

ComponentText(component) ==
    IF component.kind = "class" THEN <<".", component.name>> ELSE <<component.name>>

RECURSIVE CompoundText(_)
CompoundText(components) ==
    IF components = <<>> THEN <<>>
    ELSE ComponentText(Head(components)) \o CompoundText(Tail(components))

\* Compound selectors joined by the descendant combinator.
RECURSIVE SelectorText(_)
SelectorText(selector) ==
    IF Len(selector) = 1 THEN CompoundText(selector[1])
    ELSE CompoundText(Head(selector)) \o <<" ">> \o SelectorText(Tail(selector))

RECURSIVE SelectorListText(_)
SelectorListText(selectors) ==
    IF Len(selectors) = 1 THEN SelectorText(selectors[1])
    ELSE SelectorText(Head(selectors)) \o <<",">> \o SelectorListText(Tail(selectors))

\* to_css with minify: the rules in the order of the rule list, nothing between them.
RECURSIVE to_css(_)
to_css(rules) ==
    IF rules = <<>> THEN <<>>
    ELSE LET rule == Head(rules)
             text ==
                 CASE rule.kind = "style" ->
                        SelectorListText(rule.selectors) \o <<"{", "declarations", "}">>
                   [] rule.kind \in {"media", "supports"} ->
                        <<"@", rule.kind, "{">> \o to_css(rule.rules) \o <<"}">>
                   [] OTHER -> <<"@", rule.kind, "{", "}">>
         IN  text \o to_css(Tail(rules))

stitch_and_prune(styles, order, used_classes) ==
    LET all_css == JoinAndParse(styles, order)
    IN  IF all_css = <<>> THEN <<>>
        ELSE to_css(prune_rules(all_css, used_classes))

\* DashMap::insert: the entry of the key is set, whatever it was.
BufferInsert(styles, file_id, file_css) ==
    [id \in DOMAIN styles \cup {file_id} |->
        IF id = file_id THEN file_css ELSE styles[id]]

---------------------------------------------------------------------------
(* run(): one step per call that can return early or write to disk. *)

RunErr(msg) == [tag |-> "Err", err |-> msg]
RunOk == [tag |-> "Ok", err |-> ""]
Running == [tag |-> "None", err |-> ""]

Exit(r) ==
    /\ result' = r
    /\ pc' = "exit"

RuntimeRequired(ir) == ir.expressions # <<>> \/ ir.component_instances # <<>>

RunValidate ==
    /\ pc = "validate"
    /\ LET checked == validate_payload(payload)
       IN  IF ~checked.ok
           THEN /\ Exit(RunErr(checked.err))
                /\ UNCHANGED page_html
           ELSE /\ page_html' = ensure_document_html(payload.ir.html)
                /\ pc' = "create_out_dir"
                /\ UNCHANGED result
    /\ UNCHANGED <<otherVars, payload, deriveVars, fs, fs0, markers, events, component_assets, js>>

RunCreateOutDir ==
    /\ pc = "create_out_dir"
    /\ \E io \in {"ok", "mkdir_failed"} :
          IF io = "mkdir_failed"
          THEN /\ Exit(RunErr("failed to create output dir"))
               /\ UNCHANGED fs
          ELSE /\ fs' = CreateDirAll(fs, <<>>)
               /\ pc' = "bindings"
               /\ UNCHANGED result
    /\ UNCHANGED <<otherVars, payload, deriveVars, fs0, markers, events, component_assets, js, page_html>>

\* The marker table is derived from the HTML or taken from the IR.
RunBindings ==
    /\ pc = "bindings"
    /\ IF ~RuntimeRequired(payload.ir)
       THEN /\ pc' = "router"
            /\ UNCHANGED <<dpc, markers, events>>
       ELSE IF payload.ir.marker_bindings = <<>>
       THEN /\ dpc' = "begin"
            /\ pc' = "derive"
            /\ UNCHANGED <<markers, events>>
       ELSE /\ markers' = payload.ir.marker_bindings
            /\ events' = payload.ir.event_bindings
            /\ pc' = "runtime_asset"
            /\ UNCHANGED dpc
    /\ UNCHANGED <<otherVars, payload, cursor, part, marker_slots, event_bindings, derived,
                   fs, fs0, result, component_assets, js, page_html>>

RunDerived ==
    /\ pc = "derive"
    /\ dpc = "returned"
    /\ IF derived.tag = "Err"
       THEN /\ Exit(RunErr(derived.err))
            /\ UNCHANGED <<markers, events>>
       ELSE /\ markers' = derived.markers
            /\ events' = derived.events
            /\ pc' = "runtime_asset"
            /\ UNCHANGED result
    /\ UNCHANGED <<otherVars, payload, deriveVars, fs, fs0, component_assets, js, page_html>>

\* ensure_runtime_asset
RunRuntimeAsset ==
    /\ pc = "runtime_asset"
    /\ \E io \in IoOutcomes :
          IF Exists(fs, RuntimeRel)
          THEN /\ pc' = "components"
               /\ UNCHANGED <<fs, result>>
          ELSE /\ fs' = CreateAndWrite(fs, RuntimeRel, <<"runtime_js">>, io)
               /\ IF io = "ok"
                  THEN pc' = "components" /\ UNCHANGED result
                  ELSE Exit(RunErr("failed to write runtime asset"))
    /\ UNCHANGED <<otherVars, payload, deriveVars, fs0, markers, events, component_assets, js, page_html>>

\* emit_component_assets: one component per step, in key order.
RunComponentAssets ==
    /\ pc = "components"
    /\ LET keys == SortedKeys(DOMAIN payload.ir.components_scripts)
           done == Cardinality(DOMAIN component_assets)
       IN  IF done = Len(keys)
           THEN /\ pc' = "entry"
                /\ UNCHANGED <<fs, result, component_assets>>
           ELSE LET hoist_id == keys[done + 1]
                    source == ComponentModule(payload.ir.components_scripts[hoist_id],
                                              RuntimeImportSpec)
                    rel == ComponentRel(hoist_id, source)
                IN  \E io \in IoOutcomes :
                       /\ fs' = CreateAndWrite(fs, rel, source, io)
                       /\ IF io = "ok"
                          THEN /\ component_assets' =
                                     [h \in DOMAIN component_assets \cup {hoist_id} |->
                                         IF h = hoist_id THEN rel ELSE component_assets[h]]
                               /\ UNCHANGED <<pc, result>>
                          ELSE /\ Exit(RunErr("failed to write component asset"))
                               /\ UNCHANGED component_assets
    /\ UNCHANGED <<otherVars, payload, deriveVars, fs0, markers, events, js, page_html>>

\* generate_entry_js, the write of assets/<hash>.js and the two script tags.
RunEntry ==
    /\ pc = "entry"
    /\ LET generated == generate_entry_js(payload.ir, RuntimeImportSpec,
                                          markers, events, component_assets)
       IN  IF ~generated.ok
           THEN /\ Exit(RunErr(generated.err))
                /\ UNCHANGED <<fs, js, page_html>>
           ELSE \E io \in IoOutcomes :
                   /\ js' = generated.value
                   /\ fs' = CreateAndWrite(fs, EntryRel(generated.value),
                                            generated.value, io)
                   /\ IF io = "ok"
                      THEN /\ page_html' =
                                 inject_script_once(
                                     inject_script_once(page_html, RuntimeRel,
                                                        "data-zx-runtime"),
                                     EntryRel(generated.value), "data-zx-page")
                           /\ pc' = "router"
                           /\ UNCHANGED result
                      ELSE /\ Exit(RunErr("failed to write asset"))
                           /\ UNCHANGED page_html
    /\ UNCHANGED <<otherVars, payload, deriveVars, fs0, markers, events, component_assets>>

RunRouterManifest ==
    /\ pc = "router"
    /\ IF ~payload.router
       THEN /\ pc' = "html"
            /\ UNCHANGED <<fs, result>>
       ELSE \E io \in IoOutcomes :
               LET upserted == upsert_router_manifest(fs, RouteEntry(payload), io)
               IN  /\ fs' = upserted.disk
                   /\ IF upserted.ok
                      THEN pc' = "router_asset" /\ UNCHANGED result
                      ELSE Exit(RunErr("router manifest upsert failed"))
    /\ UNCHANGED <<otherVars, payload, deriveVars, fs0, markers, events, component_assets, js, page_html>>

RunRouterAsset ==
    /\ pc = "router_asset"
    /\ \E io \in IoOutcomes :
          /\ fs' = CreateAndWrite(fs, RouterRel, <<"router_js">>, io)
          /\ IF io = "ok"
             THEN /\ page_html' = inject_script_once(page_html, RouterRel, "data-zx-router")
                  /\ pc' = "html"
                  /\ UNCHANGED result
             ELSE /\ Exit(RunErr("failed to write router asset"))
                  /\ UNCHANGED page_html
    /\ UNCHANGED <<otherVars, payload, deriveVars, fs0, markers, events, component_assets, js>>

RunWriteHtml ==
    /\ pc = "html"
    /\ \E io \in IoOutcomes :
          /\ fs' = CreateAndWrite(fs, route_to_output_path(payload.route), page_html, io)
          /\ Exit(IF io = "ok" THEN RunOk ELSE RunErr("failed to write html"))
    /\ UNCHANGED <<otherVars, payload, deriveVars, fs0, markers, events, component_assets, js, page_html>>

---------------------------------------------------------------------------
(* Inputs *)

Attr(tag, value) == [tag |-> tag, value |-> value]

IrWith(attrs, n) ==
    [BaseIr EXCEPT !.html = HtmlOf("fragment", attrs), !.expressions = Expressions(n)]

\* derive_binding_tables: every bounded HTML against every expression count.
DerivePayloads ==
    { [BasePayload EXCEPT !.ir = IrWith(h, n)] : h \in Htmls, n \in 0..MaxExprs }

IndexValues == 0..MaxExprs

MarkerTables == SeqsUpTo({ IrMarker(i) : i \in IndexValues }, MaxExprs)

ExpressionTables ==
    SeqsUpTo({ IrExpressionBinding(i, None, None) : i \in IndexValues }, MaxExprs)

EventTables == SeqsUpTo({ IrEvent(i) : i \in IndexValues }, 1)

\* validate_payload: the valid header, and each header field on its own invalid.
Headers ==
    { [ir_version |-> 1, route |-> <<"/", "a">>, file |-> <<"a">>, html |-> "fragment"],
      [ir_version |-> 2, route |-> <<"/", "a">>, file |-> <<"a">>, html |-> "fragment"],
      [ir_version |-> 1, route |-> <<" ">>,      file |-> <<"a">>, html |-> "fragment"],
      [ir_version |-> 1, route |-> <<"a">>,      file |-> <<"a">>, html |-> "fragment"],
      [ir_version |-> 1, route |-> <<"/", "a">>, file |-> <<>>,    html |-> "fragment"],
      [ir_version |-> 1, route |-> <<"/", "a">>, file |-> <<"a">>, html |-> "blank"] }

ValidatePayload(h, n, m, x, e) ==
    [route |-> h.route, file |-> h.file, router |-> FALSE,
     ir |-> [BaseIr EXCEPT !.ir_version = h.ir_version,
                           !.html = HtmlOf(h.html, <<>>),
                           !.expressions = Expressions(n),
                           !.marker_bindings = m,
                           !.expression_bindings = x,
                           !.event_bindings = e]]

\* run(): pages with and without markers, hoisted code, components, routing.
RunHtmls ==
    { <<>>,
      <<Attr(TagText, <<"0">>)>>,
      <<Attr(TagText, <<"0", " ", "1">>)>>,
      <<Attr(TagText, <<"0">>), Attr(TagOnClick, <<"1">>)>>,
      <<Attr(TagTitle, <<"0">>), Attr(TagComponent, <<"x">>)>> }

RunCode == { <<>>, << <<" ">>, <<"x", " ">> >> }

Scripts(ids) == [h \in ids |-> ComponentScript(h)]

RunComponents ==
    { [scripts |-> NoComponents,             instances |-> <<>>],
      [scripts |-> Scripts({HoistA}),        instances |-> <<ComponentInstance(HoistA)>>],
      [scripts |-> Scripts({HoistA, HoistB}), instances |-> <<ComponentInstance(HoistB)>>],
      [scripts |-> Scripts({HoistA}),        instances |-> <<>>],
      [scripts |-> NoComponents,             instances |-> <<ComponentInstance(HoistA)>>] }

RunPayloads ==
    { [route |-> r, file |-> <<"a">>, router |-> rt,
       ir |-> [BaseIr EXCEPT !.html = HtmlOf("fragment", h),
                             !.expressions = Expressions(n),
                             !.marker_bindings = m,
                             !.hoisted = [state |-> <<>>, code |-> c],
                             !.components_scripts = k.scripts,
                             !.component_instances = k.instances]] :
         r \in {<<"/">>, <<"/", "a">>}, rt \in BOOLEAN, h \in RunHtmls,
         n \in 0..MaxExprs, m \in MarkerTables, c \in RunCode, k \in RunComponents }

\* The output directory before the run: absent, or left by an earlier build.
EarlierRoute ==
    [path |-> <<"/", "b">>, output |-> route_to_output_path(<<"/", "b">>),
     html |-> HtmlOf("fragment", <<>>), expressions |-> <<>>]

BuiltDisk(manifest) ==
    Write(Write(CreateDirAll(EmptyDisk, AssetsDir), RuntimeRel, <<"runtime_js">>),
          ManifestRel, manifest)

InitialDisks ==
    { EmptyDisk, BuiltDisk(Manifest(<<EarlierRoute>>)), BuiltDisk(CorruptManifest) }

---------------------------------------------------------------------------
(* Specifications *)

DeriveIdle ==
    /\ cursor = 1
    /\ part = 1
    /\ marker_slots = <<>>
    /\ event_bindings = <<>>
    /\ derived = NotReturned

HashIdle == [content |-> <<>>, pos |-> 0, hash |-> Word(0, 0), out |-> <<>>]

CssIdle == [rules |-> <<>>, used |-> {}, pruned |-> <<>>]

BufferIdle == [loads |-> <<>>, loaded |-> {}, styles |-> <<>>, used |-> {}, stitched |-> {}]

CheckingIdle == [compiled |-> <<>>, metadata |-> <<>>, result |-> <<>>]

ResolvingIdle == [specifier |-> <<>>, rejected |-> <<>>, resolved |-> <<>>]

TransformingIdle == [is_dev |-> FALSE, id |-> <<>>, code |-> <<>>, passes |-> 0]

CacheIdle == [threads |-> <<>>]

DevIdle == [builder |-> "idle"]

\* Every part of the bundler but the named one is at rest.
LaterIdleBut(own) ==
    /\ IF own = "buffer" THEN TRUE ELSE buffer = BufferIdle
    /\ IF own = "checking" THEN TRUE ELSE checking = CheckingIdle
    /\ IF own = "resolving" THEN TRUE ELSE resolving = ResolvingIdle
    /\ IF own = "transforming" THEN TRUE ELSE transforming = TransformingIdle
    /\ IF own = "cache" THEN TRUE ELSE cache = CacheIdle
    /\ IF own = "dev" THEN TRUE ELSE dev = DevIdle

LaterIdle == LaterIdleBut("none")

OtherIdle ==
    /\ hashing = HashIdle
    /\ builds = <<>>
    /\ upserts = <<>>
    /\ injected = <<>>
    /\ LaterIdle
    /\ css = CssIdle

RunIdle ==
    /\ OtherIdle
    /\ fs0 = fs
    /\ result = Running
    /\ markers = <<>>
    /\ events = <<>>
    /\ component_assets = [h \in {} |-> <<>>]
    /\ js = <<>>
    /\ page_html = NoDocument

\* derive_binding_tables on its own.
DeriveInit ==
    /\ payload \in DerivePayloads
    /\ dpc = "begin"
    /\ DeriveIdle
    /\ pc = "idle"
    /\ fs = EmptyDisk
    /\ RunIdle

DeriveNext ==
    \/ DeriveBegin
    \/ ScanText
    \/ ScanComponent
    \/ ScanEvent
    \/ ScanAttr
    \/ DeriveCollect

SpecDerive == DeriveInit /\ [][DeriveNext]_vars

\* validate_payload on its own.
ValidateInit ==
    /\ \E h \in Headers, n \in 0..MaxExprs, m \in MarkerTables,
          x \in ExpressionTables, e \in EventTables :
          payload = ValidatePayload(h, n, m, x, e)
    /\ dpc = "idle"
    /\ DeriveIdle
    /\ pc = "validate"
    /\ fs = EmptyDisk
    /\ RunIdle

ValidateNext == RunValidate

SpecValidate == ValidateInit /\ [][ValidateNext]_vars

\* The whole of run().
RunInit ==
    /\ payload \in RunPayloads
    /\ dpc = "idle"
    /\ DeriveIdle
    /\ pc = "validate"
    /\ fs \in InitialDisks
    /\ RunIdle

RunNext ==
    \/ RunValidate
    \/ RunCreateOutDir
    \/ RunBindings
    \/ DeriveNext
    \/ RunDerived
    \/ RunRuntimeAsset
    \/ RunComponentAssets
    \/ RunEntry
    \/ RunRouterManifest
    \/ RunRouterAsset
    \/ RunWriteHtml

SpecRun == RunInit /\ [][RunNext]_vars

---------------------------------------------------------------------------
(* The operations below run outside a page build; the page pipeline's      *)
(* variables stay as they are before run() starts.                         *)

pageVars == <<payload, deriveVars, pc, fs, fs0, result, markers, events,
              component_assets, js, page_html>>

PageIdle ==
    /\ payload = BasePayload
    /\ dpc = "idle"
    /\ DeriveIdle
    /\ pc = "idle"
    /\ fs = EmptyDisk
    /\ fs0 = fs
    /\ result = Running
    /\ markers = <<>>
    /\ events = <<>>
    /\ component_assets = [h \in {} |-> <<>>]
    /\ js = <<>>
    /\ page_html = NoDocument

---------------------------------------------------------------------------
(* Two invocations of the bundler at the same time.  Each has its own       *)
(* payload and output directory; the disk is shared, and a path on it is    *)
(* the output directory followed by the path relative to it.  One step is   *)
(* one call that looks at or changes the disk.  Every I/O call succeeds,    *)
(* the payloads are valid and have no expressions, so the binding tables    *)
(* are empty.                                                               *)

Builds == {1, 2}

\* serde's map visitor: a later entry of the same key replaces an earlier one.
RECURSIVE FromEntries(_)
FromEntries(supplied) ==
    IF supplied = <<>> THEN NoComponents
    ELSE LET earlier == FromEntries(SubSeq(supplied, 1, Len(supplied) - 1))
             last == supplied[Len(supplied)]
         IN  [h \in DOMAIN earlier \cup {last.hoist_id} |->
                 IF h = last.hoist_id THEN last ELSE earlier[h]]

ScriptWith(hoist_id, code) == [ComponentScript(hoist_id) EXCEPT !.code = code]

BuildIr(input) ==
    [BaseIr EXCEPT !.components_scripts = FromEntries(input.supplied),
                   !.component_instances = <<ComponentInstance(HoistA)>>]

BuildPayload(input) ==
    [route |-> input.route, file |-> <<"a">>, router |-> TRUE, ir |-> BuildIr(input)]

OutPath(b, rel) == <<builds[b].input.out_dir>> \o rel

NoAssets == [h \in {} |-> <<>>]

BuildStart(input) ==
    [input |-> input, pc |-> "start", assets |-> NoAssets, emitted |-> <<>>,
     js |-> <<>>, loaded |-> <<>>, raced |-> FALSE, html |-> NoDocument,
     html_path |-> <<>>]

\* What a build leaves alone: everything but the disk and the builds.
buildRest == <<payload, deriveVars, pc, fs0, result, markers, events,
               component_assets, js, page_html, hashing, upserts, injected, css, laterVars>>

\* create_dir_all(out_dir), then ensure_runtime_asset up to runtime_path.exists()
BuildRuntimeCheck(b) ==
    /\ UNCHANGED buildRest
    /\ builds[b].pc = "start"
    /\ fs' = CreateDirAll(fs, OutPath(b, <<>>))
    /\ builds' = [builds EXCEPT
          ![b].html = ensure_document_html(BuildIr(builds[b].input).html),
          ![b].pc = IF Exists(fs, OutPath(b, RuntimeRel))
                    THEN "components" ELSE "runtime_write"]

\* ensure_runtime_asset, the write after exists() returned false
BuildRuntimeWrite(b) ==
    /\ UNCHANGED buildRest
    /\ builds[b].pc = "runtime_write"
    /\ fs' = CreateAndWrite(fs, OutPath(b, RuntimeRel), <<"runtime_js">>, "ok")
    /\ builds' = [builds EXCEPT ![b].pc = "components"]

\* emit_component_assets: one component per step, in key order.
BuildComponentAsset(b) ==
    /\ UNCHANGED buildRest
    /\ builds[b].pc = "components"
    /\ LET scripts == BuildIr(builds[b].input).components_scripts
           keys == SortedKeys(DOMAIN scripts)
           done == Len(builds[b].emitted)
       IN  IF done = Len(keys)
           THEN /\ builds' = [builds EXCEPT ![b].pc = "entry"]
                /\ UNCHANGED fs
           ELSE LET hoist_id == keys[done + 1]
                    source == ComponentModule(scripts[hoist_id], RuntimeImportSpec)
                    rel == ComponentRel(hoist_id, source)
                IN  /\ fs' = CreateAndWrite(fs, OutPath(b, rel), source, "ok")
                    /\ builds' = [builds EXCEPT
                          ![b].emitted = Append(@, hoist_id),
                          ![b].assets =
                              [h \in DOMAIN @ \cup {hoist_id} |->
                                  IF h = hoist_id THEN rel ELSE @[h]]]

\* generate_entry_js, the write of assets/<hash>.js and the two script tags.
BuildEntry(b) ==
    /\ UNCHANGED buildRest
    /\ builds[b].pc = "entry"
    /\ LET generated == generate_entry_js(BuildIr(builds[b].input), RuntimeImportSpec,
                                          <<>>, <<>>, builds[b].assets).value
       IN  /\ fs' = CreateAndWrite(fs, OutPath(b, EntryRel(generated)), generated, "ok")
           /\ builds' = [builds EXCEPT
                 ![b].js = generated,
                 ![b].html = inject_script_once(
                                 inject_script_once(@, RuntimeRel, "data-zx-runtime"),
                                 EntryRel(generated), "data-zx-page"),
                 ![b].pc = "manifest_read"]

\* Another build is between its read and its write of the same manifest.
InsideUpsert(b) ==
    \E other \in Builds \ {b} :
        /\ builds[other].pc = "manifest_write"
        /\ builds[other].input.out_dir = builds[b].input.out_dir

\* upsert_router_manifest up to the parsed manifest
BuildManifestRead(b) ==
    /\ UNCHANGED buildRest
    /\ builds[b].pc = "manifest_read"
    /\ LET made == CreateDirAll(fs, Parent(OutPath(b, ManifestRel)))
       IN  /\ fs' = made
           /\ builds' = [builds EXCEPT
                 ![b].loaded = IF OutPath(b, ManifestRel) \in DOMAIN made.files
                               THEN made.files[OutPath(b, ManifestRel)].routes
                               ELSE <<>>,
                 ![b].raced = InsideUpsert(b),
                 ![b].pc = "manifest_write"]

\* upsert_router_manifest from the replace-or-push to the write
BuildManifestWrite(b) ==
    /\ UNCHANGED buildRest
    /\ builds[b].pc = "manifest_write"
    /\ fs' = Write(fs, OutPath(b, ManifestRel),
                   Manifest(SortByPath(Upsert(builds[b].loaded,
                                              RouteEntry(BuildPayload(builds[b].input))))))
    /\ builds' = [builds EXCEPT ![b].pc = "router_asset"]

BuildRouterAsset(b) ==
    /\ UNCHANGED buildRest
    /\ builds[b].pc = "router_asset"
    /\ fs' = CreateAndWrite(fs, OutPath(b, RouterRel), <<"router_js">>, "ok")
    /\ builds' = [builds EXCEPT
          ![b].html = inject_script_once(@, RouterRel, "data-zx-router"),
          ![b].pc = "html"]

BuildWriteHtml(b) ==
    /\ UNCHANGED buildRest
    /\ builds[b].pc = "html"
    /\ LET html_path == OutPath(b, route_to_output_path(builds[b].input.route))
       IN  /\ fs' = CreateAndWrite(fs, html_path, builds[b].html, "ok")
           /\ builds' = [builds EXCEPT ![b].html_path = html_path, ![b].pc = "done"]

CodeAa == <<"A", "a">>
CodeBB == <<"B", "B">>

SuppliedScripts ==
    { <<ScriptWith(HoistA, CodeAa)>>,
      <<ScriptWith(HoistA, CodeBB)>>,
      <<ScriptWith(HoistA, CodeAa), ScriptWith(HoistB, CodeAa)>>,
      <<ScriptWith(HoistB, CodeAa), ScriptWith(HoistA, CodeAa)>> }

BuildRoutes == { <<"/", "a">>, <<"/", "a", "/", ":", "i">>, <<"/", "b">> }

OutDirs == { <<"out">>, <<"dist">> }

BuildInputs == [route : BuildRoutes, supplied : SuppliedScripts, out_dir : OutDirs]

\* The first build is the page /a into out; the second is any build.
FirstBuildInputs ==
    { input \in BuildInputs : input.route = <<"/", "a">> /\ input.out_dir = <<"out">> }

BuildsInit ==
    /\ PageIdle
    /\ hashing = HashIdle
    /\ upserts = <<>>
    /\ injected = <<>>
    /\ LaterIdle
    /\ css = CssIdle
    /\ \E first \in FirstBuildInputs, second \in BuildInputs :
          builds = <<BuildStart(first), BuildStart(second)>>

BuildsNext ==
    \/ \E b \in Builds : BuildRuntimeCheck(b)
    \/ \E b \in Builds : BuildRuntimeWrite(b)
    \/ \E b \in Builds : BuildComponentAsset(b)
    \/ \E b \in Builds : BuildEntry(b)
    \/ \E b \in Builds : BuildManifestRead(b)
    \/ \E b \in Builds : BuildManifestWrite(b)
    \/ \E b \in Builds : BuildRouterAsset(b)
    \/ \E b \in Builds : BuildWriteHtml(b)

SpecBuilds == BuildsInit /\ [][BuildsNext]_vars

---------------------------------------------------------------------------
(* upsert_router_manifest called again and again on one output directory,   *)
(* one call at a time, starting without a manifest file.                    *)

ManifestPaths == { <<"/">>, <<"/", "a">>, <<"/", "b">> }

ManifestHtmls == { HtmlOf("fragment", <<>>), HtmlOf("fragment", <<Attr(TagText, <<"0">>)>>) }

ManifestEntries ==
    { [path |-> path, output |-> route_to_output_path(path), html |-> html,
       expressions |-> <<>>] : path \in ManifestPaths, html \in ManifestHtmls }

manifestRest == <<payload, deriveVars, pc, fs0, result, markers, events,
                  component_assets, js, page_html, hashing, builds, injected, css, laterVars>>

UpsertRoute ==
    /\ UNCHANGED manifestRest
    /\ Len(upserts) < MaxUpserts
    /\ \E entry \in ManifestEntries, io \in IoOutcomes :
          LET upserted == upsert_router_manifest(fs, entry, io)
          IN  /\ fs' = upserted.disk
              /\ upserts' = IF upserted.ok THEN Append(upserts, entry) ELSE upserts

ManifestInit ==
    /\ PageIdle
    /\ hashing = HashIdle
    /\ builds = <<>>
    /\ upserts = <<>>
    /\ injected = <<>>
    /\ LaterIdle
    /\ css = CssIdle

ManifestNext == UpsertRoute

SpecManifest == ManifestInit /\ [][ManifestNext]_vars

---------------------------------------------------------------------------
(* inject_script_once called again and again on one HTML text. *)

ScriptSources == { RuntimeRel, RouterRel }

MarkerAttr(script_src) ==
    IF script_src = RuntimeRel THEN "data-zx-runtime" ELSE "data-zx-router"

\* What a document can be made of before any injection: content, content that
\* spells out the path of the runtime asset, and "</body>".
PagePieces ==
    { Content(HtmlOf("document", <<>>), <<>>),
      Content(HtmlOf("document", <<>>), RuntimeRel),
      BodyClose }

InjectDocuments == SeqsUpTo(PagePieces, MaxPieces)

injectRest == <<payload, deriveVars, pc, fs, fs0, result, markers, events,
                component_assets, js, hashing, builds, upserts, css, laterVars>>

InjectScript ==
    /\ UNCHANGED injectRest
    /\ Len(injected) < MaxInjections
    /\ \E script_src \in ScriptSources :
          /\ page_html' = inject_script_once(page_html, script_src, MarkerAttr(script_src))
          /\ injected' = Append(injected, script_src)

InjectInit ==
    /\ payload = BasePayload
    /\ dpc = "idle"
    /\ DeriveIdle
    /\ pc = "idle"
    /\ fs = EmptyDisk
    /\ fs0 = fs
    /\ result = Running
    /\ markers = <<>>
    /\ events = <<>>
    /\ component_assets = [h \in {} |-> <<>>]
    /\ js = <<>>
    /\ page_html \in InjectDocuments
    /\ hashing = HashIdle
    /\ builds = <<>>
    /\ upserts = <<>>
    /\ injected = <<>>
    /\ LaterIdle
    /\ css = CssIdle

InjectNext == InjectScript

SpecInject == InjectInit /\ [][InjectNext]_vars

---------------------------------------------------------------------------
(* prune_rules on a parsed stylesheet. *)

ClassNames == {"a", "b"}

SelA     == << <<Class("a")>> >>
SelB     == << <<Class("b")>> >>
SelDiv   == << <<Type("div")>> >>
SelAandB == << <<Class("a"), Class("b")>> >>
SelAthenB   == << <<Class("a")>>, <<Class("b")>> >>
SelAthenDiv == << <<Class("a")>>, <<Type("div")>> >>

\* The rules next to each other at one level, apart from a nested container.
LeafLists ==
    { <<>>,
      <<StyleRule(<<SelA, SelB>>)>>,
      <<StyleRule(<<SelDiv>>), StyleRule(<<SelAandB>>)>>,
      <<StyleRule(<<SelAthenB>>)>>,
      <<StyleRule(<<SelAthenDiv>>), OtherRule>>,
      <<OtherRule>>,
      <<StyleRule(<<SelB>>), StyleRule(<<SelA>>)>> }

\* Rule lists with containers nested up to the given depth.
RECURSIVE NestedRules(_)
NestedRules(depth) ==
    IF depth = 0 THEN LeafLists
    ELSE LeafLists \cup
         { leaves \o <<container>> :
             leaves \in LeafLists,
             container \in { MediaRule(nested) : nested \in NestedRules(depth - 1) }
                       \cup { SupportsRule(nested) : nested \in NestedRules(depth - 1) } }

cssRest == <<payload, deriveVars, pc, fs, fs0, result, markers, events,
             component_assets, js, page_html, hashing, builds, upserts, injected, laterVars>>

PruneStylesheet ==
    /\ UNCHANGED cssRest
    /\ css.pruned = None
    /\ css' = [css EXCEPT !.pruned = Some(prune_rules(css.rules, css.used))]

CssInit ==
    /\ PageIdle
    /\ hashing = HashIdle
    /\ builds = <<>>
    /\ upserts = <<>>
    /\ injected = <<>>
    /\ LaterIdle
    /\ \E rules \in NestedRules(MaxNesting), used \in SUBSET ClassNames :
          css = [rules |-> rules, used |-> used, pruned |-> None]

CssNext == PruneStylesheet

SpecCss == CssInit /\ [][CssNext]_vars

---------------------------------------------------------------------------
(* The plugin's CSS buffer: load() hooks running side by side, then        *)
(* generate_bundle().                                                      *)

BufferFiles == {"x.zen", "y.zen"}

Fragments ==
    { <<>>,
      <<StyleRule(<<SelA>>)>>,
      <<StyleRule(<<SelB>>), OtherRule>> }

Loads == [id : BufferFiles, styles : Fragments, css_classes : {{}, {"a"}, {"b"}}]

earlierVars == <<payload, deriveVars, runVars, hashing, builds, upserts, injected, css>>

EarlierIdle ==
    /\ PageIdle
    /\ hashing = HashIdle
    /\ builds = <<>>
    /\ upserts = <<>>
    /\ injected = <<>>
    /\ css = CssIdle

bufferRest == <<earlierVars, checking, resolving, transforming, cache, dev>>

\* load(): the file's CSS goes into the buffer unless it is empty, its classes
\* into the used classes.
LoadFile(n) ==
    /\ UNCHANGED bufferRest
    /\ n \in DOMAIN buffer.loads
    /\ n \notin buffer.loaded
    /\ LET manifest == buffer.loads[n]
       IN  buffer' = [buffer EXCEPT
                        !.loaded = @ \cup {n},
                        !.styles = IF manifest.styles # <<>>
                                   THEN BufferInsert(@, manifest.id, manifest.styles)
                                   ELSE @,
                        !.used = @ \cup manifest.css_classes]

\* generate_bundle(): once every module is loaded.
GenerateBundle ==
    /\ UNCHANGED bufferRest
    /\ buffer.loaded = DOMAIN buffer.loads
    /\ \E order \in IterationOrders(buffer.styles) :
          buffer' = [buffer EXCEPT
                       !.stitched = @ \cup {stitch_and_prune(buffer.styles, order, buffer.used)}]

BufferInit ==
    /\ EarlierIdle
    /\ LaterIdleBut("buffer")
    /\ \E loads \in [1..MaxLoads -> Loads] :
          buffer = [BufferIdle EXCEPT !.loads = loads]

BufferNext ==
    \/ \E n \in 1..MaxLoads : LoadFile(n)
    \/ GenerateBundle

SpecBuffer == BufferInit /\ [][BufferNext]_vars

---------------------------------------------------------------------------
(* validate_expressions (src/src/utils.rs). *)

\* Ok(()) of Result<(), BundleError>
BundleOk == [error |-> "none"]

ExpressionMismatch(expected, got) ==
    [error |-> "ExpressionMismatch", expected |-> expected, got |-> got]

ExpressionContentMismatch(index, expected, got) ==
    [error |-> "ExpressionContentMismatch", index |-> index,
     expected |-> expected, got |-> got]

\* compiled.iter().zip(metadata.iter()).enumerate(): pairs up to the shorter
\* list, indices from 0; the first pair that differs ends the loop.
RECURSIVE ZipCompare(_, _, _)
ZipCompare(compiled, metadata, i) ==
    IF i >= Len(compiled) \/ i >= Len(metadata) THEN BundleOk
    ELSE LET got == compiled[i + 1]
             expected == metadata[i + 1]
         IN  IF got # expected
             THEN ExpressionContentMismatch(i, expected, got)
             ELSE ZipCompare(compiled, metadata, i + 1)

\* validate_expressions without its length check.
validate_expressions_zip_only(compiled, metadata) ==
    ZipCompare(compiled, metadata, 0)

validate_expressions(compiled, metadata) ==
    IF Len(compiled) # Len(metadata)
    THEN ExpressionMismatch(Len(metadata), Len(compiled))
    ELSE ZipCompare(compiled, metadata, 0)

ExpressionSources == {"title", "extra", "count"}

ExpressionLists == SeqsUpTo(ExpressionSources, MaxListLen)

checkingRest == <<earlierVars, buffer, resolving, transforming, cache, dev>>

\* execute_bundle in strict mode with metadata supplied.
ValidateExpressions ==
    /\ UNCHANGED checkingRest
    /\ checking.result = None
    /\ checking' = [checking EXCEPT
                      !.result = Some(validate_expressions(checking.compiled,
                                                           checking.metadata))]

CheckingInit ==
    /\ EarlierIdle
    /\ LaterIdleBut("checking")
    /\ \E compiled \in ExpressionLists, metadata \in ExpressionLists :
          checking = [compiled |-> compiled, metadata |-> metadata, result |-> None]

CheckingNext == ValidateExpressions

SpecChecking == CheckingInit /\ [][CheckingNext]_vars

---------------------------------------------------------------------------
(* Virtual module ids (src/src/utils.rs, src/src/plugin/zenith_loader.rs). *)
(* A specifier is a sequence of pieces of text: the null byte, its two     *)
(* escaped spellings, and the words the checks look for.                    *)

Nul        == "NUL"
EscapedNul == "\\0"
EncodedNul == "%00"

StartsWithSeq(text, prefix) ==
    /\ Len(text) >= Len(prefix)
    /\ SubSeq(text, 1, Len(prefix)) = prefix

EndsWithSeq(text, suffix) ==
    /\ Len(text) >= Len(suffix)
    /\ SubSeq(text, Len(text) - Len(suffix) + 1, Len(text)) = suffix

ContainsSeq(text, needle) ==
    \E i \in 1..(Len(text) - Len(needle) + 1) :
        SubSeq(text, i, i + Len(needle) - 1) = needle

VIRTUAL_PREFIX == <<Nul, "zenith:">>

is_zenith_virtual_id(id) == StartsWithSeq(id, VIRTUAL_PREFIX)

ValidationError(reason) == [error |-> "ValidationError", reason |-> reason]

reject_external_zenith_import(specifier) ==
    IF StartsWithSeq(specifier, <<Nul>>)
    THEN ValidationError("reserved")
    ELSE IF \/ ContainsSeq(specifier, <<EscapedNul, "zenith:">>)
            \/ ContainsSeq(specifier, <<EncodedNul, "zenith:">>)
         THEN ValidationError("internal virtual namespace")
         ELSE BundleOk

\* HookResolveIdOutput { id, external: false }
ResolvedInternal(id) == [id |-> id, external |-> FALSE]

resolve_id(specifier) ==
    IF EndsWithSeq(specifier, <<".zen">>)
    THEN Some(ResolvedInternal(specifier))
    ELSE IF StartsWithSeq(specifier, VIRTUAL_PREFIX)
         THEN Some(ResolvedInternal(specifier))
         ELSE None

SpecifierPieces == {Nul, EscapedNul, EncodedNul, "zenith:", "entry:hack", "react", ".zen"}

Specifiers == SeqsUpTo(SpecifierPieces, MaxTokens) \ {<<>>}

resolvingRest == <<earlierVars, buffer, checking, transforming, cache, dev>>

\* The validation, where it is called on an import of user code.
RejectImport ==
    /\ UNCHANGED resolvingRest
    /\ resolving.rejected = None
    /\ resolving' = [resolving EXCEPT
                       !.rejected = Some(reject_external_zenith_import(resolving.specifier))]

\* The bundler hands the import of user code to the loader's resolve_id hook.
ResolveId ==
    /\ UNCHANGED resolvingRest
    /\ resolving.resolved = None
    /\ resolving' = [resolving EXCEPT
                       !.resolved = Some(resolve_id(resolving.specifier))]

ResolvingInit ==
    /\ EarlierIdle
    /\ LaterIdleBut("resolving")
    /\ \E specifier \in Specifiers :
          resolving = [specifier |-> specifier, rejected |-> None, resolved |-> None]

ResolvingNext ==
    \/ RejectImport
    \/ ResolveId

SpecResolving == ResolvingInit /\ [][ResolvingNext]_vars

---------------------------------------------------------------------------
(* The loader's transform hook (src/src/plugin/zenith_loader.rs).  Code is *)
(* a sequence of pieces of text, the HMR marker being one piece.            *)

HMR_MARKER == "/* zenith-hmr */"

HMR_FOOTER == <<"\n", HMR_MARKER, "\n", "if (import.meta.hot) { import.meta.hot.accept(); }", "\n">>

\* Ok(None) leaves the module as it is; Ok(Some(output)) replaces its code.
transform(is_dev, id, code) ==
    IF ~is_dev \/ ~EndsWithSeq(id, <<".zen">>) THEN None
    ELSE IF ContainsSeq(code, <<HMR_MARKER>>) THEN None
    ELSE Some(code \o HMR_FOOTER)

ModuleIds == {<<"page", ".zen">>, <<"util", ".js">>}

CodePieces == {"export", "\n", HMR_MARKER}

ModuleCodes == SeqsUpTo(CodePieces, MaxTokens)

transformingRest == <<earlierVars, buffer, checking, resolving, cache, dev>>

\* One build: the hook runs on the module's current code.
TransformPass ==
    /\ UNCHANGED transformingRest
    /\ transforming.passes < MaxPasses
    /\ LET output == transform(transforming.is_dev, transforming.id, transforming.code)
       IN  transforming' = [transforming EXCEPT
                              !.passes = @ + 1,
                              !.code = IF IsSome(output) THEN Unwrap(output) ELSE @]

TransformingInit ==
    /\ EarlierIdle
    /\ LaterIdleBut("transforming")
    /\ \E is_dev \in BOOLEAN, id \in ModuleIds, code \in ModuleCodes :
          transforming = [is_dev |-> is_dev, id |-> id, code |-> code, passes |-> 0]

TransformingNext == TransformPass

SpecTransforming == TransformingInit /\ [][TransformingNext]_vars

---------------------------------------------------------------------------
(* CssCache (src/src/plugin/css_cache.rs): a map and a dirty set, each     *)
(* behind its own RwLock, called from several threads.  A call is a run of *)
(* steps: it takes its locks, executes its statements, and returns, which  *)
(* drops the guards.                                                        *)

Pages == {"home", "about"}

NoThread == "none"

\* RwLock: one writer or any number of readers.
Unlocked == [writer |-> NoThread, readers |-> {}]

CanWrite_Always(lock) == TRUE

CanWrite(lock) == lock.writer = NoThread /\ lock.readers = {}

CanRead(lock) == lock.writer = NoThread

WriteLocked(lock, t) == [lock EXCEPT !.writer = t]

ReadLocked(lock, t) == [lock EXCEPT !.readers = @ \cup {t}]

\* Dropping a guard the thread may or may not hold.
Released(lock, t) ==
    [writer |-> IF lock.writer = t THEN NoThread ELSE lock.writer,
     readers |-> lock.readers \ {t}]

\* HashMap::insert, HashMap::remove and HashMap::clear; each entry is an Option.
MapInsert(map, page_id, page_css) == [map EXCEPT ![page_id] = Some(page_css)]

MapRemove(map, page_id) == [map EXCEPT ![page_id] = None]

MapClear(map) == [page_id \in DOMAIN map |-> None]

\* HashSet::insert and HashSet::remove; remove returns whether the value was present.
DirtyInsert(dirty, page_id) == dirty \cup {page_id}

DirtyRemove_Keeping(dirty, page_id) == dirty

DirtyRemove(dirty, page_id) == dirty \ {page_id}

WriteOps == {"insert", "remove", "clear", "invalidate"}

ReadOps == {"get", "contains"}

TwoLockOps == {"insert", "invalidate"}

CacheCall(op, page_id, page_css) == [op |-> op, page_id |-> page_id, css |-> page_css]

CacheCalls ==
    { CacheCall("insert", page_id, page_css) : page_id \in Pages, page_css \in {"old", "new"} }
    \cup { CacheCall(op, page_id, "") :
             op \in {"get", "remove", "contains", "invalidate", "has_changed"},
             page_id \in Pages }
    \cup { CacheCall("clear", "", "") }

ThreadIdle == [pc |-> "idle", call |-> CacheCall("", "", "")]

cacheRest == <<earlierVars, buffer, checking, resolving, transforming, dev>>

\* A thread calls one of the cache's methods.
Call(t) ==
    /\ UNCHANGED cacheRest
    /\ cache.threads[t].pc = "idle"
    /\ cache.calls < MaxCalls
    /\ \E call \in CacheCalls :
          cache' = [cache EXCEPT
                      !.calls = @ + 1,
                      !.threads[t] = [pc |-> IF call.op = "has_changed" THEN "dirty" ELSE "inner",
                                      call |-> call]]

\* self.inner.write() or self.inner.read()
AcquireInner(t) ==
    /\ UNCHANGED cacheRest
    /\ cache.threads[t].pc = "inner"
    /\ LET op == cache.threads[t].call.op
       IN  /\ IF op \in WriteOps THEN CanWrite(cache.inner) ELSE CanRead(cache.inner)
           /\ cache' = [cache EXCEPT
                          !.inner = IF op \in WriteOps THEN WriteLocked(@, t)
                                    ELSE ReadLocked(@, t),
                          !.threads[t].pc = IF op \in TwoLockOps THEN "dirty" ELSE "last"]

\* self.dirty.write()
AcquireDirty(t) ==
    /\ UNCHANGED cacheRest
    /\ cache.threads[t].pc = "dirty"
    /\ CanWrite(cache.dirty_lock)
    /\ cache' = [cache EXCEPT
                   !.dirty_lock = WriteLocked(@, t),
                   !.threads[t].pc = IF cache.threads[t].call.op \in TwoLockOps
                                     THEN "first" ELSE "last"]

\* The first of the two statements of insert and invalidate.
FirstStatement(t) ==
    /\ UNCHANGED cacheRest
    /\ cache.threads[t].pc = "first"
    /\ LET call == cache.threads[t].call
       IN  cache' = [cache EXCEPT
                       !.dirty = IF call.op = "insert" THEN DirtyInsert(@, call.page_id) ELSE @,
                       !.map = IF call.op = "invalidate" THEN MapRemove(@, call.page_id) ELSE @,
                       !.threads[t].pc = "last"]

\* The last statement of the method, its return value, and the guards dropped.
Return(t) ==
    /\ UNCHANGED cacheRest
    /\ cache.threads[t].pc = "last"
    /\ LET call == cache.threads[t].call
           op == call.op
           returned ==
               CASE op \in {"insert", "remove", "get"} -> cache.map[call.page_id]
                 [] op = "contains" -> IsSome(cache.map[call.page_id])
                 [] op = "has_changed" -> call.page_id \in cache.dirty
                 [] OTHER -> <<>>
       IN  cache' = [cache EXCEPT
                       !.map = CASE op = "insert" -> MapInsert(@, call.page_id, call.css)
                                 [] op = "remove" -> MapRemove(@, call.page_id)
                                 [] op = "clear" -> MapClear(@)
                                 [] OTHER -> @,
                       !.dirty = CASE op = "invalidate" -> DirtyInsert(@, call.page_id)
                                   [] op = "has_changed" -> DirtyRemove(@, call.page_id)
                                   [] OTHER -> @,
                       !.inner = Released(@, t),
                       !.dirty_lock = Released(@, t),
                       !.log = Append(@, [thread |-> t, call |-> call, returned |-> returned]),
                       !.threads[t] = ThreadIdle]

\* CssCache::new() shared by the given threads.
NewCache(threads) ==
    [map |-> [page_id \in Pages |-> None],
     dirty |-> {},
     inner |-> Unlocked,
     dirty_lock |-> Unlocked,
     threads |-> [t \in threads |-> ThreadIdle],
     calls |-> 0,
     log |-> <<>>]

CacheThreads == {"t1", "t2"}

CacheNext ==
    \/ \E t \in DOMAIN cache.threads : Call(t)
    \/ \E t \in DOMAIN cache.threads : AcquireInner(t)
    \/ \E t \in DOMAIN cache.threads : AcquireDirty(t)
    \/ \E t \in DOMAIN cache.threads : FirstStatement(t)
    \/ \E t \in DOMAIN cache.threads : Return(t)

\* One caller.
CacheInit ==
    /\ EarlierIdle
    /\ LaterIdleBut("cache")
    /\ cache = NewCache({"t1"})

SpecCache == CacheInit /\ [][CacheNext]_vars

\* Clones of the cache in two threads.
SharedCacheInit ==
    /\ EarlierIdle
    /\ LaterIdleBut("cache")
    /\ cache = NewCache(CacheThreads)

SpecSharedCache == SharedCacheInit /\ [][CacheNext]_vars

---------------------------------------------------------------------------
(* validate_payload on payloads with signals and signal-bound expressions. *)

SignalTables == SeqsUpTo({ IrSignal(id, 0) : id \in IndexValues }, MaxExprs)

SignalBindingTables ==
    SeqsUpTo({ IrExpressionBinding(0, signal_index, None) :
                 signal_index \in {None} \cup { Some(i) : i \in IndexValues } }, MaxExprs)

SignalPayload(n, signals, bindings) ==
    [BasePayload EXCEPT !.ir = [BaseIr EXCEPT
                                  !.html = HtmlOf("fragment", <<>>),
                                  !.expressions = Expressions(n),
                                  !.hoisted = [state |-> <<IrState>>, code |-> <<>>],
                                  !.signals = signals,
                                  !.expression_bindings = bindings]]

SignalsInit ==
    /\ \E n \in 0..MaxExprs, signals \in SignalTables, bindings \in SignalBindingTables :
          payload = SignalPayload(n, signals, bindings)
    /\ dpc = "idle"
    /\ DeriveIdle
    /\ pc = "validate"
    /\ fs = EmptyDisk
    /\ RunIdle

SignalsNext == RunValidate

SpecSignals == SignalsInit /\ [][SignalsNext]_vars

---------------------------------------------------------------------------
(* run() on routes with dot segments. *)

DotRoutes ==
    { <<"/">>,
      <<"/", "a">>,
      <<"/", "a", "/", ":", "i">>,
      <<"/", ".", "/", "a">>,
      <<"/", ".", ".", "/", "a">>,
      <<"/", "a", "/", ".", ".", "/", ".", ".">> }

RoutePayload(route, router, h) ==
    [BasePayload EXCEPT !.route = route, !.router = router,
                        !.ir = IrWith(h, MaxExprs)]

RoutesInit ==
    /\ \E route \in DotRoutes, router \in BOOLEAN, h \in RunHtmls :
          payload = RoutePayload(route, router, h)
    /\ dpc = "idle"
    /\ DeriveIdle
    /\ pc = "validate"
    /\ fs \in InitialDisks
    /\ RunIdle

SpecRoutes == RoutesInit /\ [][RunNext]_vars

---------------------------------------------------------------------------
(* run() on components whose hoist ids differ in punctuation only. *)

AliasHoistIds == { <<"a">>, <<"a", "b">>, <<"a", ".", "b">>, <<"a", "_", "b">>, <<"a", "-", "b">> }

AliasComponents ==
    { [scripts |-> Scripts(ids), instances |-> <<ComponentInstance(h)>>] :
        ids \in { pair \in SUBSET AliasHoistIds : Cardinality(pair) \in {1, 2} },
        h \in AliasHoistIds }

AliasPayload(k, h) ==
    [BasePayload EXCEPT !.ir = [IrWith(h, MaxExprs) EXCEPT
                                  !.components_scripts = k.scripts,
                                  !.component_instances = k.instances]]

AliasesInit ==
    /\ \E k \in AliasComponents, router \in BOOLEAN, h \in RunHtmls :
          payload = [AliasPayload(k, h) EXCEPT !.router = router]
    /\ dpc = "idle"
    /\ DeriveIdle
    /\ pc = "validate"
    /\ fs = EmptyDisk
    /\ RunIdle

SpecAliases == AliasesInit /\ [][RunNext]_vars

---------------------------------------------------------------------------
(* ZenithDevController (src/_legacy_v1/src/lib.rs): the builder thread,    *)
(* the rebuild channel and the rebuild() calls.  A request is the oneshot  *)
(* sender of one call, named by the number of the call.                     *)

\* mpsc::channel(1)
RebuildChannelCapacity == 1

Callers == {"c1", "c2"}

BuildOutcomes == {"ok", "err"}

\* Both arms of the match send the reply.
Reply_OnSuccessOnly(replied, request, outcome) ==
    IF outcome = "ok" THEN replied \cup {request} ELSE replied

Reply(replied, request, outcome) == replied \cup {request}

CallerIdle == [pc |-> "idle", request |-> 0]

\* ZenithDevController::new(): the thread is spawned, nothing is built yet.
NewController ==
    [builder |-> "initial",
     building |-> 0,
     channel |-> <<>>,
     callers |-> [c \in Callers |-> CallerIdle],
     requests |-> 0,
     sent |-> <<>>,
     served |-> <<>>,
     outcomes |-> <<>>,
     replied |-> {},
     returned |-> {}]

devRest == <<earlierVars, buffer, checking, resolving, transforming, cache>>

\* The initial build: bundler.write().await, its result dropped.
InitialBuild ==
    /\ UNCHANGED devRest
    /\ dev.builder = "initial"
    /\ \E outcome \in BuildOutcomes :
          dev' = [dev EXCEPT !.builder = "recv", !.outcomes = Append(@, outcome)]

\* rebuild(): the oneshot channel is created.
Rebuild(c) ==
    /\ UNCHANGED devRest
    /\ dev.callers[c].pc = "idle"
    /\ dev.requests < MaxRebuilds
    /\ dev' = [dev EXCEPT
                 !.requests = @ + 1,
                 !.callers[c] = [pc |-> "sending", request |-> dev.requests + 1]]

\* self.rebuild_tx.send(reply_tx).await: waits for a free slot of the channel.
SendRequest(c) ==
    /\ UNCHANGED devRest
    /\ dev.callers[c].pc = "sending"
    /\ Len(dev.channel) < RebuildChannelCapacity
    /\ dev' = [dev EXCEPT
                 !.channel = Append(@, dev.callers[c].request),
                 !.sent = Append(@, dev.callers[c].request),
                 !.callers[c].pc = "waiting"]

\* rx.recv().await in the builder's loop.
ReceiveRequest ==
    /\ UNCHANGED devRest
    /\ dev.builder = "recv"
    /\ dev.channel # <<>>
    /\ dev' = [dev EXCEPT
                 !.builder = "build",
                 !.building = Head(dev.channel),
                 !.channel = Tail(@)]

\* bundler.write().await and reply_tx.send(()) in either arm.
BuildAndReply ==
    /\ UNCHANGED devRest
    /\ dev.builder = "build"
    /\ \E outcome \in BuildOutcomes :
          dev' = [dev EXCEPT
                    !.builder = "recv",
                    !.building = 0,
                    !.served = Append(@, dev.building),
                    !.outcomes = Append(@, outcome),
                    !.replied = Reply(@, dev.building, outcome)]

\* reply_rx.await completes and rebuild() returns Ok(()).
ReceiveReply(c) ==
    /\ UNCHANGED devRest
    /\ dev.callers[c].pc = "waiting"
    /\ dev.callers[c].request \in dev.replied
    /\ dev' = [dev EXCEPT
                 !.returned = @ \cup {dev.callers[c].request},
                 !.callers[c] = CallerIdle]

BuilderStep == InitialBuild \/ ReceiveRequest \/ BuildAndReply

DevInit ==
    /\ EarlierIdle
    /\ LaterIdleBut("dev")
    /\ dev = NewController

DevNext ==
    \/ InitialBuild
    \/ \E c \in Callers : Rebuild(c)
    \/ \E c \in Callers : SendRequest(c)
    \/ ReceiveRequest
    \/ BuildAndReply
    \/ \E c \in Callers : ReceiveReply(c)

SpecDev == DevInit /\ [][DevNext]_vars

\* The builder thread keeps running and the runtime polls a woken call.
SpecDevFair ==
    /\ SpecDev
    /\ WF_vars(BuilderStep)
    /\ \A c \in Callers : WF_vars(ReceiveReply(c))

---------------------------------------------------------------------------
(* stable_hash_8 on its own: one byte of the content per step. *)

HashAlphabet == {65, 66, 97}

\* "Gycxe~" and "script"
MinInput == <<71, 121, 99, 120, 101, 126>>
NegativeInput == <<115, 99, 114, 105, 112, 116>>

HashInputs == SeqsUpTo(HashAlphabet, MaxBytes) \cup {MinInput, NegativeInput}

HashByte ==
    /\ UNCHANGED <<builds, upserts, injected, css, laterVars>>
    /\ hashing.out = <<>>
    /\ hashing.pos < Len(hashing.content)
    /\ hashing' = [hashing EXCEPT
                      !.hash = HashStep(@, hashing.content[hashing.pos + 1]),
                      !.pos = @ + 1]
    /\ UNCHANGED pageVars

HashFormat ==
    /\ UNCHANGED <<builds, upserts, injected, css, laterVars>>
    /\ hashing.out = <<>>
    /\ hashing.pos = Len(hashing.content)
    /\ hashing' = [hashing EXCEPT !.out = Format08x(wrapping_abs(hashing.hash))]
    /\ UNCHANGED pageVars

HashInit ==
    /\ PageIdle
    /\ builds = <<>>
    /\ upserts = <<>>
    /\ injected = <<>>
    /\ LaterIdle
    /\ css = CssIdle
    /\ \E content \in HashInputs : hashing = [HashIdle EXCEPT !.content = content]

HashNext ==
    \/ HashByte
    \/ HashFormat

SpecHash == HashInit /\ [][HashNext]_vars

---------------------------------------------------------------------------
(* Properties of derive_binding_tables *)

Returned == dpc = "returned"
Succeeded == Returned /\ derived.tag = "Ok"

TextTag == <<"e">>
ComponentTag == <<"c">>
IsEventTag(tag) == tag[1] = "on-"

\* The raw index tokens of the attributes, in scan order: every part of a
\* data-zx-e value, the whole value of any other attribute, none for data-zx-c.
RECURSIVE IndexTokens(_)
IndexTokens(attrs) ==
    IF attrs = <<>> THEN <<>>
    ELSE (IF Head(attrs).tag = TextTag THEN SplitWhitespace(Head(attrs).value)
          ELSE IF Head(attrs).tag = ComponentTag THEN <<>>
          ELSE <<Head(attrs).value>>)
         \o IndexTokens(Tail(attrs))

InRange(token) ==
    IsSome(ParseUsize(token)) /\ Unwrap(ParseUsize(token)) < ExpressionCount

IndexOfToken(token) == Unwrap(ParseUsize(token))

\* C1: when derive_binding_tables succeeds for N >= 1 expressions it returns
\* exactly N markers and the marker at position i carries index i.
C1_Bijection ==
    (Succeeded /\ ExpressionCount >= 1) =>
        /\ Len(derived.markers) = ExpressionCount
        /\ \A i \in 0..(ExpressionCount - 1) : derived.markers[i + 1].index = i

C1_Witness ==
    /\ Succeeded
    /\ ExpressionCount = 2
    /\ Len(Html) = 2
    /\ Len(derived.markers) = 2

\* C2: when the whole HTML has been scanned and some index has no marker,
\* the result is the missing-marker error for the lowest such index, and
\* neither table is returned.
C2_MissingMarker ==
    (/\ Returned
     /\ ExpressionCount >= 1
     /\ cursor > Len(Html)
     /\ \E i \in 1..Len(marker_slots) : marker_slots[i] = <<>>) =>
        /\ derived.tag = "Err"
        /\ derived.err = "missing marker for expression index"
        /\ derived.index \in 0..(ExpressionCount - 1)
        /\ marker_slots[derived.index + 1] = <<>>
        /\ \A j \in 1..derived.index : marker_slots[j] # <<>>
        /\ derived.markers = <<>>
        /\ derived.events = <<>>

C2_Witness ==
    /\ Returned
    /\ ExpressionCount = 2
    /\ Html = <<[tag |-> <<"e">>, value |-> <<"0">>]>>
    /\ derived.tag = "Err"
    /\ derived.index = 1

\* The first token that repeats the index of an earlier one, every token up to
\* it being a valid index.
FirstRepeatAt(tokens, k) ==
    /\ \A j \in 1..k : InRange(tokens[j])
    /\ \E j \in 1..(k - 1) : IndexOfToken(tokens[j]) = IndexOfToken(tokens[k])
    /\ \A j, m \in 1..(k - 1) :
          j # m => IndexOfToken(tokens[j]) # IndexOfToken(tokens[m])

C3_DuplicateRejected ==
    Returned =>
        \A k \in 1..Len(IndexTokens(Html)) :
            FirstRepeatAt(IndexTokens(Html), k) =>
                /\ derived.tag = "Err"
                /\ derived.err = "duplicate marker index"
                /\ derived.index = IndexOfToken(IndexTokens(Html)[k])
                /\ derived.markers = <<>>
                /\ derived.events = <<>>

C3_SlotKept ==
    \A i \in 1..Len(marker_slots) :
        marker_slots[i] # <<>> =>
            /\ Len(marker_slots') >= i
            /\ marker_slots'[i] = marker_slots[i]

\* C3: no expression index receives two markers: the second assignment of an
\* index, whatever the kinds of the two attributes, ends derivation with the
\* duplicate-marker-index error and no table, and an occupied slot is never
\* overwritten.
C3_NoDoubleAssignment == [](C3_DuplicateRejected) /\ [][C3_SlotKept]_vars

C3_Witness ==
    /\ Returned
    /\ derived.err = "duplicate marker index"
    /\ Len(Html) = 2
    /\ Html[1].tag # Html[2].tag
    /\ marker_slots[derived.index + 1] # <<>>

ExpectedMarker(tag, i) ==
    IF tag = TextTag
    THEN [index |-> i, kind |-> "text",
          selector |-> [attr |-> <<"e">>, op |-> "~=", value |-> i], attr |-> <<>>]
    ELSE IF IsEventTag(tag)
    THEN [index |-> i, kind |-> "event",
          selector |-> [attr |-> tag, op |-> "=", value |-> i], attr |-> <<>>]
    ELSE [index |-> i, kind |-> "attr",
          selector |-> [attr |-> tag, op |-> "=", value |-> i], attr |-> <<tag>>]

ExpectedEvent(tag, i) ==
    [index |-> i, event |-> Tail(tag),
     selector |-> [attr |-> tag, op |-> "=", value |-> i]]

\* C5: on success every index of a data-zx-e value has a Text marker with the
\* ~= selector, every data-zx-on-<event> attribute an Event marker and exactly
\* one event-table entry with the same index, event name and selector, every
\* other attribute an Attr marker named after its tag; data-zx-c yields no
\* marker and never an error; the event table has one entry per Event marker
\* and none for any other marker.
C5_Dispatch ==
    /\ (Succeeded /\ ExpressionCount >= 1) =>
          /\ \A a \in 1..Len(Html) :
                Html[a].tag # ComponentTag =>
                    \A t \in 1..Len(IndexTokens(<<Html[a]>>)) :
                        LET i == IndexOfToken(IndexTokens(<<Html[a]>>)[t])
                        IN  /\ derived.markers[i + 1] = ExpectedMarker(Html[a].tag, i)
                            /\ IsEventTag(Html[a].tag) =>
                                  /\ Cardinality({ e \in 1..Len(derived.events) :
                                                     derived.events[e].index = i }) = 1
                                  /\ \E e \in 1..Len(derived.events) :
                                        derived.events[e] = ExpectedEvent(Html[a].tag, i)
          /\ \A m \in 1..Len(derived.markers) :
                derived.markers[m].selector.attr # ComponentTag
          /\ \A e \in 1..Len(derived.events) :
                derived.markers[derived.events[e].index + 1].kind = "event"
          /\ Len(derived.events) =
                Cardinality({ m \in 1..Len(derived.markers) :
                                derived.markers[m].kind = "event" })
    /\ (Returned /\ derived.tag = "Err" /\ cursor <= Len(Html)) =>
          Html[cursor].tag # ComponentTag

C5_Witness ==
    /\ Succeeded
    /\ ExpressionCount = 1
    /\ \E a \in 1..Len(Html) : Html[a].tag = ComponentTag /\ Html[a].value = <<"x">>
    /\ \E a \in 1..Len(Html) : IsEventTag(Html[a].tag)
    /\ Len(derived.events) = 1

---------------------------------------------------------------------------
(* Properties of run() and validate_payload *)

\* C4: every index token of a scanned attribute is a non-negative integer
\* below the expression count, or derivation fails; for every expression count
\* derivation is run with, zero included.
C4_IndexInRange ==
    Succeeded =>
        \A k \in 1..Len(IndexTokens(Html)) : InRange(IndexTokens(Html)[k])

\* C6: when run() returns an error, nothing under the output directory has
\* been created or modified.
C6_AllOrNothing == result.tag = "Err" => fs = fs0

Accepted == pc \notin {"idle", "validate"} /\ validate_payload(payload).ok

Distinct(indices) ==
    \A i, j \in 1..Len(indices) : i # j => indices[i] # indices[j]

Covers(indices, n) ==
    \A k \in 0..(n - 1) : \E i \in 1..Len(indices) : indices[i] = k

MarkerIndices(ir) == [i \in 1..Len(ir.marker_bindings) |-> ir.marker_bindings[i].index]

ExpressionMarkerIndices(ir) ==
    [i \in 1..Len(ir.expression_bindings) |-> ir.expression_bindings[i].marker_index]

EventIndices(ir) == [i \in 1..Len(ir.event_bindings) |-> ir.event_bindings[i].index]

\* C7: in an accepted payload the marker_bindings indices and the
\* expression_bindings marker_index values, when supplied, are each pairwise
\* distinct and each cover 0..len(expressions).
C7_UniqueExhaustive ==
    Accepted =>
        /\ payload.ir.marker_bindings # <<>> =>
              /\ Distinct(MarkerIndices(payload.ir))
              /\ Covers(MarkerIndices(payload.ir), ExpressionCount)
        /\ payload.ir.expression_bindings # <<>> =>
              /\ Distinct(ExpressionMarkerIndices(payload.ir))
              /\ Covers(ExpressionMarkerIndices(payload.ir), ExpressionCount)

Below(indices, n) == \A i \in 1..Len(indices) : indices[i] < n

\* C8: in an accepted payload every expression index of marker_bindings,
\* expression_bindings and event_bindings is below len(expressions).
C8_IndicesInBounds ==
    Accepted =>
        /\ Below(MarkerIndices(payload.ir), ExpressionCount)
        /\ Below(ExpressionMarkerIndices(payload.ir), ExpressionCount)
        /\ Below(EventIndices(payload.ir), ExpressionCount)

Generated == Len(js) > 0

ContentOf(name) == js[CHOOSE i \in 1..Len(js) : js[i].section = name].content

HydrateArgs == js[Len(js)].content[1]

\* C9: the markers array the entry module passes to hydrate is as long as the
\* expressions array it passes, and its entry at position i carries index i.
C9_HydrateMarkers ==
    Generated =>
        LET marker_arg == ContentOf(HydrateArgs.markers)
            expression_arg == ContentOf(HydrateArgs.expressions)
        IN  /\ Len(marker_arg) = Len(expression_arg)
            /\ \A i \in 1..Len(marker_arg) : marker_arg[i].index = i - 1

Occurrences(name) == Cardinality({ i \in 1..Len(js) : js[i].section = name })

EndsInOneHydrate ==
    /\ js[Len(js)].section = "hydrate"
    /\ Occurrences("hydrate") = 1

Ordered(rank(_)) ==
    \A i, j \in 1..Len(js) : i < j => rank(js[i].section) <= rank(js[j].section)

\* The order of the claim as stated; the prelude is not part of its list.
StatedRank(name) ==
    CASE name = "virtual_entry" -> 1
      [] name = "hoisted_code" -> 1
      [] name = "markers" -> 2
      [] name = "events" -> 2
      [] name = "ir_version" -> 3
      [] name = "signals" -> 4
      [] name = "expression_bindings" -> 5
      [] name = "state_values" -> 6
      [] name = "component_imports" -> 7
      [] name = "components" -> 7
      [] name = "runtime_import" -> 8
      [] name = "hydrate" -> 9

EmittedRank(name) ==
    CASE name = "virtual_entry" -> 0
      [] name = "hoisted_code" -> 1
      [] name = "markers" -> 2
      [] name = "events" -> 3
      [] name = "state_values" -> 4
      [] name = "ir_version" -> 5
      [] name = "signals" -> 6
      [] name = "expression_bindings" -> 7
      [] name = "component_imports" -> 8
      [] name = "runtime_import" -> 9
      [] name = "components" -> 10
      [] name = "hydrate" -> 11

\* C10 as stated: hoisted code, marker and event tables, ir_version, signals,
\* expression bindings, state values, component bootstrap, runtime import,
\* and last a single hydrate call.
C10_StatedOrder == Generated => (Ordered(StatedRank) /\ EndsInOneHydrate)

\* C10, amended: the sections of the entry module come in the order prelude,
\* hoisted code blocks, marker table, event table, state-value table,
\* ir_version constant, signal table, expression-binding table, component
\* imports, runtime import, component table, and last a single hydrate call;
\* every section but the hoisted blocks and the component imports occurs
\* exactly once.
C10_EmittedOrder ==
    Generated =>
        /\ Ordered(EmittedRank)
        /\ EndsInOneHydrate
        /\ \A name \in {"markers", "events", "state_values", "ir_version", "signals",
                        "expression_bindings", "runtime_import", "components"} :
              Occurrences(name) = 1
        /\ Occurrences("component_imports") <= 1

C10_Witness ==
    /\ Generated
    /\ Occurrences("hoisted_code") = 1
    /\ Occurrences("component_imports") = 1
    /\ Len(ContentOf("markers")) = 2

---------------------------------------------------------------------------
(* The reference algorithm of the hash: acc = acc*31 + byte in wrapping    *)
(* 32-bit arithmetic, the absolute value, eight hexadecimal digits.        *)

Times31Plus(acc, byte) ==
    LET low == acc[2] * 31 + byte
    IN  <<(acc[1] * 31 + low \div Half) % Half, low % Half>>

RECURSIVE ReferenceFold(_, _)
ReferenceFold(acc, bytes) ==
    IF bytes = <<>> THEN acc
    ELSE ReferenceFold(Times31Plus(acc, Head(bytes)), Tail(bytes))

\* The two's complement of a negative accumulator, the accumulator otherwise.
ReferenceAbs(acc) ==
    IF acc[1] < Half \div 2 THEN acc
    ELSE LET low == (Half - 1 - acc[2]) + 1
         IN  <<((Half - 1 - acc[1]) + low \div Half) % Half, low % Half>>

Power16(k) == IF k = 0 THEN 1 ELSE IF k = 1 THEN 16 ELSE IF k = 2 THEN 256 ELSE 4096

ReferenceHex(acc) ==
    [i \in 1..8 |->
        HexDigit((acc[IF i <= 4 THEN 1 ELSE 2] \div Power16((8 - i) % 4)) % 16)]

ReferenceHash(bytes) == ReferenceHex(ReferenceAbs(ReferenceFold(<<0, 0>>, bytes)))

LowercaseHex == Digits \cup {"a", "b", "c", "d", "e", "f"}

MinValue == <<Half \div 2, 0>>

\* C12: for every byte string stable_hash_8 returns what the reference
\* algorithm returns, always eight lowercase hexadecimal digits, also when the
\* accumulator ends at the minimum 32-bit value, and "00000000" for the empty
\* input.
C12_HashReference ==
    hashing.out # <<>> =>
        /\ hashing.out = ReferenceHash(hashing.content)
        /\ hashing.out = stable_hash_8(hashing.content)
        /\ Len(hashing.out) = 8
        /\ \A i \in 1..8 : hashing.out[i] \in LowercaseHex
        /\ hashing.content = <<>> => hashing.out = [i \in 1..8 |-> "0"]

C12_Witness ==
    /\ hashing.out = <<"8", "0", "0", "0", "0", "0", "0", "0">>
    /\ hashing.hash = MinValue
    /\ hashing.content = MinInput

---------------------------------------------------------------------------
(* Concurrent builds *)

Ascending(ids) ==
    \A i \in 1..Len(ids) : \A j \in (i + 1)..Len(ids) : LexLess(ids[i], ids[j])

SectionOf(sections, name) ==
    SelectSeq(sections, LAMBDA section : section.section = name)

ImportedAliases(sections) ==
    IF SectionOf(sections, "component_imports") = <<>> THEN <<>>
    ELSE LET imports == SectionOf(sections, "component_imports")[1].content
         IN  [i \in 1..Len(imports) |-> imports[i].alias]

\* C11: the entry module and the component asset names of a build depend on
\* the IR alone: two builds of the same IR produce the same module and the same
\* asset names whatever their output directory, the files on disk and the order
\* in which components_scripts was supplied, and components are emitted and
\* imported in lexicographic hoist-id order.
C11_Deterministic ==
    \A first \in DOMAIN builds : \A second \in DOMAIN builds :
        /\ Ascending(builds[first].emitted)
        /\ builds[first].js # <<>> =>
              /\ DOMAIN builds[first].assets
                    = DOMAIN BuildIr(builds[first].input).components_scripts
              /\ ImportedAliases(builds[first].js)
                    = [i \in 1..Len(builds[first].emitted) |->
                          ComponentAlias(builds[first].emitted[i])]
        /\ ( /\ BuildIr(builds[first].input) = BuildIr(builds[second].input)
             /\ builds[first].js # <<>>
             /\ builds[second].js # <<>> )
           => /\ builds[first].js = builds[second].js
              /\ builds[first].assets = builds[second].assets

C11_Witness ==
    /\ builds # <<>>
    /\ builds[1].input.supplied # builds[2].input.supplied
    /\ builds[1].input.out_dir # builds[2].input.out_dir
    /\ BuildIr(builds[1].input) = BuildIr(builds[2].input)
    /\ builds[1].pc = "done"
    /\ builds[2].pc = "manifest_read"
    /\ builds[1].emitted = <<HoistA, HoistB>>
    /\ builds[2].js = builds[1].js

\* A file under assets/ other than the router manifest: its name holds the
\* hash of its content.
ContentAddressed(path) ==
    /\ Len(path) = 3
    /\ SubSeq(path, 2, 2) = AssetsDir
    /\ SubSeq(path, 2, 3) # ManifestRel

KeepsAssets ==
    \A path \in DOMAIN fs.files :
        ContentAddressed(path) => fs'.files[path] = fs.files[path]

HoldsWhatWasGenerated ==
    \A b \in DOMAIN builds : \A h \in DOMAIN builds[b].assets :
        fs.files[OutPath(b, builds[b].assets[h])]
            = ComponentModule(BuildIr(builds[b].input).components_scripts[h],
                              RuntimeImportSpec)

\* C13: a content-addressed asset is immutable once written: no step of any
\* build changes the bytes of an existing file with a hashed name, and the file
\* of every asset a build has emitted holds the content that build generated,
\* for every interleaving of concurrent builds.
C13_AssetsImmutable == [][KeepsAssets]_vars /\ []HoldsWhatWasGenerated

Upserted(b) == builds[b].pc \in {"router_asset", "html", "done"}

PersistedPaths(b) ==
    LET routes == fs.files[OutPath(b, ManifestRel)].routes
    IN  { routes[i].path : i \in 1..Len(routes) }

SameManifest(first, second) ==
    /\ first # second
    /\ builds[first].input.out_dir = builds[second].input.out_dir
    /\ Upserted(first)
    /\ Upserted(second)

\* C16: when the upserts of two builds into one manifest do not overlap (no
\* build reads the manifest between the other's read and write), the persisted
\* manifest keeps the entries of both; the lost update needs an overlap.
C16_SerializedKeepsBoth ==
    \A first \in DOMAIN builds : \A second \in DOMAIN builds :
        (SameManifest(first, second) /\ ~builds[first].raced /\ ~builds[second].raced)
            => {builds[first].input.route, builds[second].input.route}
                  \subseteq PersistedPaths(first)

\* The lost update: both upserts returned, one entry is not in the manifest.
C16_Witness ==
    /\ builds # <<>>
    /\ SameManifest(1, 2)
    /\ builds[1].input.route # builds[2].input.route
    /\ builds[2].raced
    /\ builds[1].input.route \notin PersistedPaths(1)
    /\ builds[2].input.route \in PersistedPaths(1)

\* C17: two builds of different routes never write the same HTML path.
C17_DistinctHtmlPaths ==
    \A first \in DOMAIN builds : \A second \in DOMAIN builds :
        ( /\ builds[first].input.route # builds[second].input.route
          /\ builds[first].html_path # <<>>
          /\ builds[second].html_path # <<>> )
        => builds[first].html_path # builds[second].html_path

---------------------------------------------------------------------------
(* The router manifest under serialized upserts *)

PersistedRoutes ==
    IF ManifestRel \in DOMAIN fs.files THEN fs.files[ManifestRel].routes ELSE <<>>

PathsOf(entries) == { entries[i].path : i \in 1..Len(entries) }

\* The position of the most recent upsert of a path.
LastUpsertOf(path) ==
    CHOOSE k \in 1..Len(upserts) :
        /\ upserts[k].path = path
        /\ \A later \in (k + 1)..Len(upserts) : upserts[later].path # path

\* C14: starting from no manifest file, after any sequence of serialized
\* upserts the manifest has exactly one entry for each path ever upserted and no
\* other entry, and the entry of a path is the one of its most recent upsert.
C14_OneEntryPerPath ==
    /\ PathsOf(PersistedRoutes) = PathsOf(upserts)
    /\ \A i \in 1..Len(PersistedRoutes) : \A j \in 1..Len(PersistedRoutes) :
          i # j => PersistedRoutes[i].path # PersistedRoutes[j].path
    /\ \A i \in 1..Len(PersistedRoutes) :
          PersistedRoutes[i] = upserts[LastUpsertOf(PersistedRoutes[i].path)]

C14_Witness ==
    /\ Len(upserts) = 3
    /\ upserts[1].path = <<"/", "b">>
    /\ upserts[2].path = <<"/", "a">>
    /\ upserts[3].path = <<"/", "a">>
    /\ upserts[3].html # upserts[2].html
    /\ PersistedRoutes = <<upserts[3], upserts[1]>>

PairwiseDistinctPaths(entries) ==
    \A i \in 1..Len(entries) : \A j \in 1..Len(entries) :
        i # j => entries[i].path # entries[j].path

\* The routes persisted after serialized upserts of the entries in this order.
RECURSIVE RoutesAfter(_)
RoutesAfter(entries) ==
    IF entries = <<>> THEN <<>>
    ELSE SortByPath(Upsert(RoutesAfter(SubSeq(entries, 1, Len(entries) - 1)),
                           entries[Len(entries)]))

Reorderings(entries) ==
    { [i \in 1..Len(entries) |-> entries[order[i]]] :
        order \in Permutations(1..Len(entries)) }

\* C15: after every successful upsert the persisted routes are in ascending
\* order of path, and upserts of pairwise distinct paths give the same manifest
\* in whatever order they are applied.
C15_SortedAnyOrder ==
    /\ \A i \in 1..Len(PersistedRoutes) : \A j \in (i + 1)..Len(PersistedRoutes) :
          ~LexLess(PersistedRoutes[j].path, PersistedRoutes[i].path)
    /\ PairwiseDistinctPaths(upserts) =>
          \A reordered \in Reorderings(upserts) : RoutesAfter(reordered) = PersistedRoutes

C15_Witness ==
    /\ Len(upserts) = 3
    /\ PairwiseDistinctPaths(upserts)
    /\ upserts[1].path = <<"/", "b">>
    /\ upserts[2].path = <<"/">>
    /\ PersistedRoutes = <<upserts[2], upserts[3], upserts[1]>>

---------------------------------------------------------------------------
(* Script injection *)

ScriptTagsOf(doc, script_src) ==
    { i \in 1..Len(doc) : doc[i].kind = "script" /\ doc[i].src = script_src }

FirstBodyCloseAt(doc) ==
    CHOOSE i \in 1..Len(doc) :
        doc[i] = BodyClose /\ \A j \in 1..(i - 1) : doc[j] # BodyClose

\* One call: a source that has its tag leaves the text as it is; otherwise the
\* tag goes right in front of "</body>", or to the end without a "</body>".
InjectedAsStated ==
    injected' # injected =>
        LET script_src == injected'[Len(injected')]
            tag == ScriptTag(script_src, MarkerAttr(script_src))
        IN  IF ScriptTagsOf(page_html, script_src) # {}
            THEN page_html' = page_html
            ELSE IF \E i \in 1..Len(page_html) : page_html[i] = BodyClose
            THEN /\ Len(page_html') = Len(page_html) + 1
                 /\ page_html'[FirstBodyCloseAt(page_html)] = tag
                 /\ page_html'[FirstBodyCloseAt(page_html) + 1] = BodyClose
            ELSE page_html' = Append(page_html, tag)

OneTagPerSource ==
    \A k \in 1..Len(injected) : Cardinality(ScriptTagsOf(page_html, injected[k])) = 1

\* C18: inject_script_once puts the script tag immediately before "</body>"
\* when there is one and at the end otherwise, applying it again with the same
\* src changes nothing, and after any number of injections the HTML holds
\* exactly one script tag for each injected src.
C18_InjectsOnce == [][InjectedAsStated]_vars /\ []OneTagPerSource

---------------------------------------------------------------------------
(* CSS pruning *)

IsContainer(rule) == rule.kind \in {"media", "supports"}

\* The rules that are not containers, each with the kinds of the containers
\* around it, in document order.
RECURSIVE Leaves(_, _)
Leaves(rules, around) ==
    IF rules = <<>> THEN <<>>
    ELSE (IF IsContainer(Head(rules))
          THEN Leaves(Head(rules).rules, Append(around, Head(rules).kind))
          ELSE << [around |-> around, rule |-> Head(rules)] >>)
         \o Leaves(Tail(rules), around)

\* The leaves with every style rule cut down to the selectors to retain, and
\* left out when none is retained.
FilterLeaves(leaves, Retained(_)) ==
    LET cut == [i \in 1..Len(leaves) |->
                   IF leaves[i].rule.kind = "style"
                   THEN [leaves[i] EXCEPT !.rule.selectors = SelectSeq(@, Retained)]
                   ELSE leaves[i]]
    IN  SelectSeq(cut, LAMBDA leaf : leaf.rule.kind # "style" \/ leaf.rule.selectors # <<>>)

ClassesOf(selector) ==
    { selector[i][j].name :
        <<i, j>> \in { <<i, j>> \in (1..Len(selector)) \X (1..2) :
                         j <= Len(selector[i]) /\ selector[i][j].kind = "class" } }

\* A selector is retained if and only if it has no class component or one of
\* its class components is used.
RetainedByClass(selector) ==
    ClassesOf(selector) = {} \/ ClassesOf(selector) \cap css.used # {}

Pruned == IsSome(css.pruned)

\* C19: a selector of a style rule is retained if and only if it has no class
\* component or at least one of its class components is in the used set; a
\* style rule is removed if and only if all its selectors are dropped and is
\* otherwise kept with exactly its retained selectors.
C19_SelectorsByClass ==
    Pruned => Leaves(Unwrap(css.pruned), <<>>)
                 = FilterLeaves(Leaves(css.rules, <<>>), RetainedByClass)

RetainedByFilter(selector) == is_selector_used(selector, css.used)

RECURSIVE NoEmptyContainer(_)
NoEmptyContainer(rules) ==
    \A i \in 1..Len(rules) :
        IsContainer(rules[i]) =>
            rules[i].rules # <<>> /\ NoEmptyContainer(rules[i].rules)

\* C20: pruning goes through media and supports rules at every depth and
\* applies the selector filter of the top level to the style rules inside; a
\* container is removed if and only if no nested rule remains; a rule of any
\* other kind is retained unchanged whatever the used set is.
C20_ContainersPruned ==
    Pruned =>
        /\ Leaves(Unwrap(css.pruned), <<>>)
              = FilterLeaves(Leaves(css.rules, <<>>), RetainedByFilter)
        /\ NoEmptyContainer(Unwrap(css.pruned))

\* A supports rule inside a media rule loses all its rules and is removed; the
\* media rule stays with its keyframes rule.
C20_Witness ==
    /\ Pruned
    /\ css.used = {}
    /\ css.rules = <<StyleRule(<<SelDiv>>), StyleRule(<<SelAandB>>),
                     MediaRule(<<OtherRule,
                                 SupportsRule(<<StyleRule(<<SelB>>), StyleRule(<<SelA>>)>>)>>)>>
    /\ Unwrap(css.pruned) = <<StyleRule(<<SelDiv>>), MediaRule(<<OtherRule>>)>>

---------------------------------------------------------------------------
\* C21: for the fragments the buffer holds and the used classes collected,
\* stitch_and_prune returns one and the same stylesheet text, whatever the
\* order in which the files were loaded and the map iterates them.
C21_StitchedOnce == Cardinality(buffer.stitched) <= 1

---------------------------------------------------------------------------
\* The lowest index, counted from 0, at which two lists of one length differ.
LowestDifference(compiled, metadata) ==
    CHOOSE i \in 0..(Len(compiled) - 1) :
        /\ compiled[i + 1] # metadata[i + 1]
        /\ \A j \in 0..(i - 1) : compiled[j + 1] = metadata[j + 1]

\* C22: validate_expressions returns Ok exactly when the two lists are equal;
\* lists of different lengths give ExpressionMismatch with the metadata length
\* as expected and the compiled length as got, whatever they contain; lists of
\* one length that differ give ExpressionContentMismatch for the lowest
\* differing index, with the metadata string as expected and the compiled
\* string as got.
C22_ExpressionsCompared ==
    IsSome(checking.result) =>
        LET compiled == checking.compiled
            metadata == checking.metadata
            returned == Unwrap(checking.result)
        IN  /\ returned = [error |-> "none"] <=> compiled = metadata
            /\ Len(compiled) # Len(metadata) =>
                 returned = [error |-> "ExpressionMismatch",
                             expected |-> Len(metadata), got |-> Len(compiled)]
            /\ (Len(compiled) = Len(metadata) /\ compiled # metadata) =>
                 LET i == LowestDifference(compiled, metadata)
                 IN  returned = [error |-> "ExpressionContentMismatch",
                                 index |-> i,
                                 expected |-> metadata[i + 1],
                                 got |-> compiled[i + 1]]

\* ["title"] against ["title", "extra"]: expected 2, got 1.
C22_Witness ==
    /\ checking.compiled = <<"title">>
    /\ checking.metadata = <<"title", "extra">>
    /\ checking.result = Some([error |-> "ExpressionMismatch", expected |-> 2, got |-> 1])

---------------------------------------------------------------------------
\* A specifier that reaches into the internal namespace: it starts with the
\* null byte, or spells \0zenith: with an escaped or an encoded null byte.
ReachesInternal(specifier) ==
    \/ specifier[1] = "NUL"
    \/ \E i \in 1..(Len(specifier) - 1) :
          /\ specifier[i] \in {"\\0", "%00"}
          /\ specifier[i + 1] = "zenith:"

\* C23: an import specifier of user code that reaches into the \0zenith:
\* namespace is a validation error and resolve_id never resolves it as an
\* internal module; any other specifier passes the validation.
C23_NeverUserResolvable ==
    /\ IsSome(resolving.rejected) =>
         IF ReachesInternal(resolving.specifier)
         THEN Unwrap(resolving.rejected).error = "ValidationError"
         ELSE Unwrap(resolving.rejected) = [error |-> "none"]
    /\ (IsSome(resolving.resolved) /\ ReachesInternal(resolving.specifier)) =>
         Unwrap(resolving.resolved) = <<>>

---------------------------------------------------------------------------
MarkerCount(code) == Cardinality({ i \in 1..Len(code) : code[i] = "/* zenith-hmr */" })

IsZenModule ==
    /\ transforming.id # <<>>
    /\ transforming.id[Len(transforming.id)] = ".zen"

\* A pass changes the code exactly when the mode is dev, the id ends with .zen
\* and the code has no marker, and then by appending the footer.
TransformsAsStated ==
    transforming'.passes # transforming.passes =>
        IF transforming.is_dev /\ IsZenModule /\ MarkerCount(transforming.code) = 0
        THEN transforming'.code =
                 transforming.code \o <<"\n", "/* zenith-hmr */", "\n",
                                        "if (import.meta.hot) { import.meta.hot.accept(); }",
                                        "\n">>
        ELSE transforming'.code = transforming.code

MarkerOnceOrNever ==
    /\ (transforming.is_dev /\ IsZenModule /\ transforming.passes >= 1) =>
          MarkerCount(transforming.code) = 1
    /\ (~transforming.is_dev /\ transforming.passes >= 1) =>
          MarkerCount(transforming.code) = 0

\* C24: the transform hook changes a module only in dev mode, for an id ending
\* with .zen and code without the HMR marker, and then appends exactly the HMR
\* footer; after any number of passes the marker occurs exactly once, and in
\* production mode it never occurs.
C24_FooterOnce == [][TransformsAsStated]_vars /\ []MarkerOnceOrNever

---------------------------------------------------------------------------
\* The call marks page p dirty / asks whether page p has changed.
Marks(entry, p) == entry.call.op \in {"insert", "invalidate"} /\ entry.call.page_id = p

Asks(entry, p) == entry.call.op = "has_changed" /\ entry.call.page_id = p

\* Page p was marked dirty before the k-th call and not asked about since.
MarkedSince(log, k, p) ==
    \E j \in 1..(k - 1) :
        /\ Marks(log[j], p)
        /\ \A i \in (j + 1)..(k - 1) : ~Asks(log[i], p)

HasChangedOncePerMark ==
    \A k \in 1..Len(cache.log) :
        cache.log[k].call.op = "has_changed" =>
            (cache.log[k].returned <=> MarkedSince(cache.log, k, cache.log[k].call.page_id))

\* What the call that returned last has left for its page.
LastCallTookEffect ==
    (cache.log # <<>> /\ \A t \in DOMAIN cache.threads : cache.threads[t].pc = "idle") =>
        LET call == cache.log[Len(cache.log)].call
        IN  /\ call.op = "insert" =>
                 call.page_id \in cache.dirty /\ cache.map[call.page_id] = <<call.css>>
            /\ call.op = "invalidate" =>
                 call.page_id \in cache.dirty /\ cache.map[call.page_id] = <<>>
            /\ call.op = "has_changed" => call.page_id \notin cache.dirty

\* No step of insert, invalidate or has_changed on one page touches another page.
OtherPagesUntouched ==
    \A t \in DOMAIN cache.threads :
        cache'.threads[t] # cache.threads[t] =>
            LET call == IF cache.threads[t].pc = "idle"
                        THEN cache'.threads[t].call ELSE cache.threads[t].call
            IN  call.op \in {"insert", "invalidate", "has_changed"} =>
                    \A q \in DOMAIN cache.map \ {call.page_id} :
                        /\ cache'.map[q] = cache.map[q]
                        /\ (q \in cache'.dirty) = (q \in cache.dirty)

\* C25: insert(p) and invalidate(p) mark p dirty, invalidate also removing p's
\* CSS; has_changed(p) is true exactly when p was marked since the previous
\* has_changed(p), and clears the mark; none of the three changes the CSS or
\* the mark of another page.
C25_DirtyPerPage ==
    /\ [][OtherPagesUntouched]_vars
    /\ [](HasChangedOncePerMark /\ LastCallTookEffect)

\* One modification of a page, then has_changed twice: true, then false, with
\* the other page's mark left standing.
C25_Witness ==
    /\ Len(cache.log) = 3
    /\ cache.calls = 3
    /\ cache.log[1].call = [op |-> "invalidate", page_id |-> "home", css |-> ""]
    /\ cache.log[2].call = [op |-> "has_changed", page_id |-> "home", css |-> ""]
    /\ cache.log[2].returned = TRUE
    /\ cache.log[3].call = [op |-> "has_changed", page_id |-> "home", css |-> ""]
    /\ cache.log[3].returned = FALSE
    /\ cache.dirty = {}

---------------------------------------------------------------------------
\* The cache after the first k calls of the log, had they run one after
\* another: the cached CSS of each page and the dirty marks.
RECURSIVE OneByOne(_, _)
OneByOne(log, k) ==
    IF k = 0 THEN [map |-> [p \in {"home", "about"} |-> <<>>], dirty |-> {}]
    ELSE LET before == OneByOne(log, k - 1)
             call == log[k].call
             p == call.page_id
         IN  CASE call.op = "insert" ->
                    [map |-> [before.map EXCEPT ![p] = <<call.css>>],
                     dirty |-> before.dirty \cup {p}]
               [] call.op = "invalidate" ->
                    [map |-> [before.map EXCEPT ![p] = <<>>],
                     dirty |-> before.dirty \cup {p}]
               [] call.op = "remove" ->
                    [before EXCEPT !.map = [@ EXCEPT ![p] = <<>>]]
               [] call.op = "clear" ->
                    [before EXCEPT !.map = [q \in DOMAIN @ |-> <<>>]]
               [] call.op = "has_changed" ->
                    [before EXCEPT !.dirty = @ \ {p}]
               [] OTHER -> before

\* What the k-th call returns when the calls run one after another.
ReturnsOneByOne(log, k) ==
    LET before == OneByOne(log, k - 1)
        call == log[k].call
    IN  CASE call.op \in {"insert", "remove", "get"} -> before.map[call.page_id]
          [] call.op = "contains" -> before.map[call.page_id] # <<>>
          [] call.op = "has_changed" -> call.page_id \in before.dirty
          [] OTHER -> <<>>

\* Every call has returned what it returns in the order of the log, and what
\* is not under a writer's lock is what the calls of the log leave.
CallsAtomic ==
    LET after == OneByOne(cache.log, Len(cache.log))
    IN  /\ \A k \in 1..Len(cache.log) :
              cache.log[k].returned = ReturnsOneByOne(cache.log, k)
        /\ cache.inner.writer = "none" => cache.map = after.map
        /\ cache.dirty_lock.writer = "none" => cache.dirty = after.dirty

\* A thread waits for the dirty-set lock only after it has the cache lock or
\* needs no cache lock, and never waits for the cache lock holding the other.
LocksInOrder ==
    \A t \in DOMAIN cache.threads :
        cache.threads[t].pc = "inner" =>
            /\ cache.dirty_lock.writer # t
            /\ cache.inner.writer # t
            /\ t \notin cache.inner.readers

\* A thread inside a call can take its next step, or another thread can.
SomeCallAdvances ==
    (\E t \in DOMAIN cache.threads : cache.threads[t].pc # "idle") =>
        \E t \in DOMAIN cache.threads :
            LET thread == cache.threads[t]
            IN  \/ thread.pc \in {"first", "last"}
                \/ /\ thread.pc = "inner"
                   /\ cache.inner.writer = "none"
                   /\ (thread.call.op \in {"get", "contains"} \/ cache.inner.readers = {})
                \/ /\ thread.pc = "dirty"
                   /\ cache.dirty_lock.writer = "none"

\* Inserts for distinct pages, all of them finished.
InsertsAllPresent ==
    ( /\ \A t \in DOMAIN cache.threads : cache.threads[t].pc = "idle"
      /\ \A k \in 1..Len(cache.log) : cache.log[k].call.op = "insert"
      /\ \A j, k \in 1..Len(cache.log) :
            cache.log[j].call.page_id = cache.log[k].call.page_id => j = k )
    => \A k \in 1..Len(cache.log) :
          /\ cache.map[cache.log[k].call.page_id] = <<cache.log[k].call.css>>
          /\ cache.log[k].call.page_id \in cache.dirty

\* C29: the threads sharing a CssCache never deadlock, both locks being taken
\* in one order; every call takes effect as if the calls ran one after
\* another; after concurrent inserts for distinct pages every page is present
\* with its own CSS and marked dirty.
C29_SharedCacheAtomic ==
    /\ CallsAtomic
    /\ LocksInOrder
    /\ SomeCallAdvances
    /\ InsertsAllPresent

\* Two threads have each inserted a page; the insert that returned first
\* belongs to the thread that was called second.
C29_Witness ==
    /\ cache.calls = 2
    /\ Len(cache.log) = 2
    /\ cache.log[1] = [thread |-> "t2",
                       call |-> [op |-> "insert", page_id |-> "about", css |-> "new"],
                       returned |-> <<>>]
    /\ cache.log[2] = [thread |-> "t1",
                       call |-> [op |-> "insert", page_id |-> "home", css |-> "old"],
                       returned |-> <<>>]
    /\ cache.map = [p \in {"home", "about"} |-> IF p = "home" THEN <<"old">> ELSE <<"new">>]
    /\ cache.dirty = {"home", "about"}

---------------------------------------------------------------------------
\* C26: in a payload that validate_payload accepts, the signal_index of every
\* expression binding is the id of some entry of ir.signals.
C26_SignalsResolve ==
    Accepted =>
        \A i \in 1..Len(payload.ir.expression_bindings) :
            LET signal_index == payload.ir.expression_bindings[i].signal_index
            IN  signal_index # <<>> =>
                    \E j \in 1..Len(payload.ir.signals) :
                        payload.ir.signals[j].id = signal_index[1]

---------------------------------------------------------------------------
\* Where a path relative to the output directory leads: the number of
\* directories below the output directory after each component, "." staying
\* and ".." going up; below zero is outside.
RECURSIVE StaysInside(_, _)
StaysInside(path, depth) ==
    IF depth < 0 THEN FALSE
    ELSE IF path = <<>> THEN TRUE
    ELSE IF Head(path) = <<".", ".">> THEN StaysInside(Tail(path), depth - 1)
    ELSE IF Head(path) = <<".">> THEN StaysInside(Tail(path), depth)
    ELSE StaysInside(Tail(path), depth + 1)

\* C27: for every route validate_payload accepts, the HTML output path lies
\* inside the output directory, and nothing the run creates or writes lies
\* outside it.
C27_InsideOutDir ==
    Accepted =>
        /\ StaysInside(route_to_output_path(payload.route), 0)
        /\ \A path \in fs.dirs \cup DOMAIN fs.files : StaysInside(path, 0)

---------------------------------------------------------------------------
\* C28: the entry module of a page imports one alias per hoist id and no alias
\* twice, and the create of every component instance is the alias imported
\* for the instance's own hoist id and for no other.
C28_AliasesDistinct ==
    js # <<>> =>
        LET aliases == ImportedAliases(js)
            hoist_ids == DOMAIN payload.ir.components_scripts
        IN  /\ \A i, j \in 1..Len(aliases) : aliases[i] = aliases[j] => i = j
            /\ \A h, k \in hoist_ids :
                  h # k =>
                     <<"__zenith_component_">> \o sanitize_asset_token(h)
                       # <<"__zenith_component_">> \o sanitize_asset_token(k)

---------------------------------------------------------------------------
\* The requests served are the first of the requests sent, in their order,
\* one build each: the builds counted are the initial one and one per request
\* served.
ServedInOrder ==
    /\ Len(dev.served) <= Len(dev.sent)
    /\ dev.served = SubSeq(dev.sent, 1, Len(dev.served))
    /\ dev.builder # "initial" => Len(dev.outcomes) = Len(dev.served) + 1

\* One request in the builder's hands at a time, none before the initial build.
OneAtATime ==
    /\ dev.builder = "initial" => (dev.served = <<>> /\ dev.building = 0 /\ dev.replied = {})
    /\ dev.building # 0 =>
          /\ dev.builder = "build"
          /\ Len(dev.sent) > Len(dev.served)
          /\ dev.building = dev.sent[Len(dev.served) + 1]

\* A reply follows the build of its request.
RepliedAfterBuild ==
    /\ \A request \in dev.replied : \E k \in 1..Len(dev.served) : dev.served[k] = request
    /\ dev.returned \subseteq dev.replied

WasSent(request) == \E k \in 1..Len(dev.sent) : dev.sent[k] = request

\* C30: every rebuild() request the channel has accepted is eventually
\* answered, after one build for it, whether the build succeeded or failed;
\* requests are served one at a time in the order sent, none before the
\* initial build has finished.
C30_RebuildReplies ==
    /\ [](ServedInOrder /\ OneAtATime /\ RepliedAfterBuild)
    /\ \A request \in 1..MaxRebuilds : WasSent(request) ~> (request \in dev.returned)

\* Two requests, served in the order sent, the first build failing, and both
\* calls have returned.
C30_Witness ==
    /\ dev.sent = <<1, 2>>
    /\ dev.served = <<1, 2>>
    /\ Len(dev.outcomes) = 3
    /\ dev.outcomes[2] = "err"
    /\ dev.returned = {1, 2}

=============================================================================
